---- MODULE Spec2Model ----
(***************************************************************************)
(* Monty: the host-facing suspension / resume protocol of                  *)
(* crates/monty/src/run.rs (MontyRun, Snapshot, FutureSnapshot, MontyRepl) *)
(* over a small bytecode VM and scheduler.                                 *)
(***************************************************************************)
EXTENDS Integers, Sequences, FiniteSets, TLC

VARIABLES
    prog,       \* index of the compiled program held by the Executor
    progress,   \* what the host holds: "New", a RunProgress, or an Err(MontyException)
    hist,       \* history of the run (what was issued, deferred, resolved, answered)
    sync,       \* outcome of the synchronous Executor::run / frame_exit_to_object
    repl,       \* the MontyRepl session
    replOut     \* outcome of the last MontyRepl::feed

vars == <<prog, progress, hist, sync, repl, replOut>>

(***************************************************************************)
(* Bounds of the model.                                                    *)
(***************************************************************************)
\* longest results list the host passes to FutureSnapshot::resume
MaxResults == 2
\* how many call ids beyond the issued ones the host may name in resume
ExtraCallIds == 1
\* how many snippets the host gives one MontyRepl session
MaxFeeds == 3
\* longest inputs vector the host passes to MontyRun::start
MaxInputs == 3
\* how many nodes the tree-walking Frame executes in one run
MaxNodes == 2

(***************************************************************************)
(* Values, host objects, exceptions.                                       *)
(***************************************************************************)
IntV(n)           == [t |-> "Int", v |-> n]
NoneV             == [t |-> "None", v |-> 0]
Undefined         == [t |-> "Undefined", v |-> 0]
ExternalFuture(c) == [t |-> "ExternalFuture", v |-> c]
Ref(h)            == [t |-> "Ref", v |-> h]
ExtFunction(i)    == [t |-> "ExtFunction", v |-> i]

\* MontyObject: what the host sees
ObjInt(n)   == [o |-> "Int", v |-> n]
ObjNone     == [o |-> "None", v |-> 0]
ObjSeq(ty, items) == [o |-> ty, v |-> items]
ObjRepr(what) == [o |-> "Repr", v |-> what]

Exc(ty, a) == [type |-> ty, arg |-> a]

\* ExternalResult
NoExc       == Exc("None", "")
Return(obj) == [r |-> "Return", obj |-> obj, exc |-> NoExc]
Error(exc)  == [r |-> "Error", obj |-> ObjNone, exc |-> exc]
Future      == [r |-> "Future", obj |-> ObjNone, exc |-> NoExc]

\* what the host answers with
HostObjects == {ObjInt(5), ObjInt(42)}
HostExc     == Exc("ValueError", "host")
HostResults == {Return(o) : o \in HostObjects} \cup {Error(HostExc), Future}
\* what the host resolves futures with
ResumeResults == {Return(ObjInt(5)), Error(HostExc), Future}

(***************************************************************************)
(* Sequence helpers.                                                       *)
(***************************************************************************)
Last(s)      == s[Len(s)]
Front(s)     == SubSeq(s, 1, Len(s) - 1)
TakeLast(s, n) == SubSeq(s, Len(s) - n + 1, Len(s))
DropLast(s, n) == SubSeq(s, 1, Len(s) - n)
Range(s)     == {s[i] : i \in DOMAIN s}

RECURSIVE SortedSeq(_)
SortedSeq(S) ==
    IF S = {} THEN <<>>
    ELSE LET m == CHOOSE x \in S : \A y \in S : x <= y
         IN <<m>> \o SortedSeq(S \ {m})

(***************************************************************************)
(* Source programs: the parser's output (statements over expressions).     *)
(***************************************************************************)
Const(n)       == [e |-> "const", a |-> n, args |-> <<>>]
Name(x)        == [e |-> "name", a |-> x, args |-> <<>>]
Add(l, r)      == [e |-> "add", a |-> 0, args |-> <<l, r>>]
Call(f, args)  == [e |-> "call", a |-> f, args |-> args]
OsCall(f)      == [e |-> "oscall", a |-> f, args |-> <<>>]
AwaitE(x)      == [e |-> "await", a |-> 0, args |-> <<x>>]
GatherE(args)  == [e |-> "gather", a |-> 0, args |-> args]
ListE(args)    == [e |-> "list", a |-> 0, args |-> args]
TupleE(args)   == [e |-> "tuple", a |-> 0, args |-> args]

Assign(x, v)   == [s |-> "assign", x |-> x, v |-> v]
ExprStmt(v)    == [s |-> "expr", x |-> "", v |-> v]
RaiseStmt(ty)  == [s |-> "raise", x |-> ty, v |-> Const(0)]

\* host-declared external functions (ExtFunctionId = index - 1) and OS functions
ExtFunctionNames == <<"add_ints", "fetch">>
OsFunctions      == <<"TimeNow">>

\* the programs a MontyRun is built from (source text)
Programs ==
    <<"add_ints(40, 2) + 0",
      "a = fetch(1); b = fetch(2); await gather(a, b)",
      "x = add_ints(1, 2); a = fetch(x); b = fetch(2); (await a) + (await b)",
      "(await fetch(1)) + time_now()",
      "([7], fetch(1))",
      "a = fetch(1); raise ValueError",
      "1 + 1",
      "v = [7]">>
ProgNamed(code) == CHOOSE i \in DOMAIN Programs : Programs[i] = code

\* the snippets fed to a MontyRepl session (source text)
Snippets ==
    <<"x = 5", "y = x + 1", "y", "a = 1; b = 2; raise ValueError", "b", "c = a + b; c", "",
      "x = x + 1">>
\* the snippets a session is started with (MontyRepl::start)
StartSnippets ==
    <<"add_ints(40, 2) + 0", "(await fetch(1)) + time_now()", "z = 1; add_ints(z, 2)", "">>

\* parse: the statements of each source text
parse(code) ==
    CASE code = "add_ints(40, 2) + 0" ->
            <<ExprStmt(Add(Call("add_ints", <<Const(40), Const(2)>>), Const(0)))>>
      [] code = "a = fetch(1); b = fetch(2); await gather(a, b)" ->
            <<Assign("a", Call("fetch", <<Const(1)>>)), Assign("b", Call("fetch", <<Const(2)>>)),
              ExprStmt(GatherE(<<Name("a"), Name("b")>>))>>
      [] code = "x = add_ints(1, 2); a = fetch(x); b = fetch(2); (await a) + (await b)" ->
            <<Assign("x", Call("add_ints", <<Const(1), Const(2)>>)),
              Assign("a", Call("fetch", <<Name("x")>>)),
              Assign("b", Call("fetch", <<Const(2)>>)),
              ExprStmt(Add(AwaitE(Name("a")), AwaitE(Name("b"))))>>
      [] code = "(await fetch(1)) + time_now()" ->
            <<ExprStmt(Add(AwaitE(Call("fetch", <<Const(1)>>)), OsCall(0)))>>
      [] code = "([7], fetch(1))" ->
            <<ExprStmt(TupleE(<<ListE(<<Const(7)>>), Call("fetch", <<Const(1)>>)>>))>>
      [] code = "a = fetch(1); raise ValueError" ->
            <<Assign("a", Call("fetch", <<Const(1)>>)), RaiseStmt("ValueError")>>
      [] code = "1 + 1" ->
            <<ExprStmt(Add(Const(1), Const(1)))>>
      [] code = "x = 5" -> <<Assign("x", Const(5))>>
      [] code = "y = x + 1" -> <<Assign("y", Add(Name("x"), Const(1)))>>
      [] code = "y" -> <<ExprStmt(Name("y"))>>
      [] code = "a = 1; b = 2; raise ValueError" ->
            <<Assign("a", Const(1)), Assign("b", Const(2)), RaiseStmt("ValueError")>>
      [] code = "b" -> <<ExprStmt(Name("b"))>>
      [] code = "c = a + b; c" ->
            <<Assign("c", Add(Name("a"), Name("b"))), ExprStmt(Name("c"))>>
      [] code = "" -> <<>>
      [] code = "v = [7]" -> <<Assign("v", ListE(<<Const(7)>>))>>
      [] code = "x = x + 1" -> <<Assign("x", Add(Name("x"), Const(1)))>>
      [] code = "p + 1" -> <<ExprStmt(Add(Name("p"), Const(1)))>>
      [] code = "z = 1; add_ints(z, 2)" ->
            <<Assign("z", Const(1)), ExprStmt(Call("add_ints", <<Name("z"), Const(2)>>))>>

(***************************************************************************)
(* Bytecode and the compile collaborators (prepare, Compiler).             *)
(***************************************************************************)
LoadConst(n)       == [op |-> "LoadConst", a |-> n, b |-> 0]
LoadNone           == [op |-> "LoadNone", a |-> 0, b |-> 0]
Pop                == [op |-> "Pop", a |-> 0, b |-> 0]
BinaryAdd          == [op |-> "BinaryAdd", a |-> 0, b |-> 0]
LoadGlobal(s)      == [op |-> "LoadGlobal", a |-> s, b |-> 0]
StoreGlobal(s)     == [op |-> "StoreGlobal", a |-> s, b |-> 0]
BuildList(n)       == [op |-> "BuildList", a |-> n, b |-> 0]
BuildTuple(n)      == [op |-> "BuildTuple", a |-> n, b |-> 0]
CallExternal(e, n) == [op |-> "CallExternal", a |-> e, b |-> n]
CallOs(f, n)       == [op |-> "CallOs", a |-> f, b |-> n]
Await              == [op |-> "Await", a |-> 0, b |-> 0]
Gather(n)          == [op |-> "Gather", a |-> n, b |-> 0]
ReturnOp           == [op |-> "Return", a |-> 0, b |-> 0]
RaiseOp(ty)        == [op |-> "Raise", a |-> ty, b |-> 0]

RECURSIVE Concat(_)
Concat(ss) == IF ss = <<>> THEN <<>> ELSE Head(ss) \o Concat(Tail(ss))

IndexOf(s, x) == CHOOSE i \in DOMAIN s : s[i] = x

\* identifiers of an expression / a statement list, in order of appearance
RECURSIVE NamesOf(_)
NamesOf(e) ==
    IF e.e = "name" THEN <<e.a>>
    ELSE Concat([i \in DOMAIN e.args |-> NamesOf(e.args[i])])
StmtNames(st) == (IF st.s = "assign" THEN <<st.x>> ELSE <<>>) \o NamesOf(st.v)
NodesNames(nodes) == Concat([i \in DOMAIN nodes |-> StmtNames(nodes[i])])

\* the name map: one [name, slot] entry per global, new names take the next slot
MapNames(name_map) == {name_map[i].name : i \in DOMAIN name_map}
RECURSIVE AddNames(_, _)
AddNames(name_map, names) ==
    IF names = <<>> THEN name_map
    ELSE IF Head(names) \in MapNames(name_map) THEN AddNames(name_map, Tail(names))
    ELSE AddNames(Append(name_map, [name |-> Head(names), slot |-> Len(name_map)]), Tail(names))
SlotOf(name_map, x) == name_map[CHOOSE i \in DOMAIN name_map : name_map[i].name = x].slot

\* the string interner: identifiers in order of first appearance, never shrunk
RECURSIVE InternAll(_, _)
InternAll(strings, names) ==
    IF names = <<>> THEN strings
    ELSE IF Head(names) \in Range(strings) THEN InternAll(strings, Tail(names))
    ELSE InternAll(Append(strings, Head(names)), Tail(names))

\* prepare: slots for external functions, inputs, then the program's names
prepare(nodes, input_names, external_functions) ==
    LET name_map == AddNames(<<>>, external_functions \o input_names \o NodesNames(nodes))
    IN [name_map |-> name_map, namespace_size |-> Len(name_map),
        interner |-> InternAll(<<>>, NodesNames(nodes)), nodes |-> nodes]

\* prepare_with_existing_names: existing slots stay, new names are appended
prepare_with_existing_names(nodes, seeded_interner, existing_name_map) ==
    LET name_map == AddNames(existing_name_map, NodesNames(nodes))
    IN [name_map |-> name_map, namespace_size |-> Len(name_map),
        interner |-> InternAll(seeded_interner, NodesNames(nodes)), nodes |-> nodes]

\* Compiler: expressions
RECURSIVE CompileExpr(_, _, _)
CompileExpr(e, name_map, external_functions) ==
    LET args == Concat([i \in DOMAIN e.args |->
                           CompileExpr(e.args[i], name_map, external_functions)])
    IN CASE e.e = "const"  -> <<LoadConst(e.a)>>
         [] e.e = "name"   -> <<LoadGlobal(SlotOf(name_map, e.a))>>
         [] e.e = "add"    -> args \o <<BinaryAdd>>
         [] e.e = "call"   ->
               args \o <<CallExternal(IndexOf(external_functions, e.a) - 1, Len(e.args))>>
         [] e.e = "oscall" -> <<CallOs(e.a, 0)>>
         [] e.e = "await"  -> args \o <<Await>>
         [] e.e = "gather" -> args \o <<Gather(Len(e.args))>>
         [] e.e = "list"   -> args \o <<BuildList(Len(e.args))>>
         [] e.e = "tuple"  -> args \o <<BuildTuple(Len(e.args))>>

\* Compiler: one statement; the value of a final expression statement is returned
CompileStmt(st, is_last, name_map, external_functions) ==
    LET v == CompileExpr(st.v, name_map, external_functions)
    IN CASE st.s = "assign" -> v \o <<StoreGlobal(SlotOf(name_map, st.x))>>
         [] st.s = "expr"   -> v \o <<IF is_last THEN ReturnOp ELSE Pop>>
         [] st.s = "raise"  -> <<RaiseOp(st.x)>>

\* Compiler::compile_module
compile_module(nodes, name_map, external_functions) ==
    Concat([i \in DOMAIN nodes |->
               CompileStmt(nodes[i], i = Len(nodes), name_map, external_functions)])
    \o (IF nodes # <<>> /\ nodes[Len(nodes)].s = "expr" THEN <<>> ELSE <<LoadNone, ReturnOp>>)

\* Interns::new
Interns_new(interner, functions, external_functions) ==
    [strings |-> interner, functions |-> functions, external_functions |-> external_functions]

\* Executor::new after the parse call: prepare, compile, intern
Executor_new_parsed(parse_result, code, input_names, external_functions) ==
    LET prepared == prepare(parse_result, input_names, external_functions)
    IN [namespace_size |-> prepared.namespace_size,
        name_map |-> prepared.name_map,
        module_code |-> compile_module(prepared.nodes, prepared.name_map, external_functions),
        interns |-> Interns_new(prepared.interner, <<>>, external_functions),
        external_function_ids |-> [i \in 1..Len(external_functions) |-> i - 1],
        code |-> code,
        heap_capacity |-> prepared.namespace_size]

\* Executor::new
Executor_new(code, input_names, external_functions) ==
    Executor_new_parsed(parse(code), code, input_names, external_functions)

\* MontyRun::new for program p
Executor(p) == Executor_new(Programs[p], <<>>, ExtFunctionNames)

(***************************************************************************)
(* Heap and conversion between VM values and host objects.                 *)
(***************************************************************************)
HeapAlloc(heap, ty, items) == Append(heap, [t |-> ty, items |-> items])

RECURSIVE MontyObject_new(_, _)
MontyObject_new(value, heap) ==
    CASE value.t = "Int" -> ObjInt(value.v)
      [] value.t = "None" -> ObjNone
      [] value.t = "Ref" ->
            LET e == heap[value.v + 1]
            IN ObjSeq(e.t, [i \in DOMAIN e.items |-> MontyObject_new(e.items[i], heap)])
      [] OTHER -> ObjRepr(value.t)

\* MontyObject::to_value: only plain objects are valid inputs
ValidInput(obj) == obj.o \in {"Int", "None"}
to_value(obj)   == IF obj.o = "Int" THEN IntV(obj.v) ELSE NoneV

into_py_objects(args, heap) == [i \in DOMAIN args |-> MontyObject_new(args[i], heap)]

(***************************************************************************)
(* The VM and its scheduler (main task only).                              *)
(***************************************************************************)
NoExit == [k |-> "None"]
NotBlocked == [kind |-> "none", ids |-> <<>>]

\* VM::new over a heap and namespaces
VM_new(heap, ns) ==
    [ip |-> 1, stack |-> <<>>, ns |-> ns, heap |-> heap, next_call_id |-> 0,
     calls |-> <<>>, blocked |-> NotBlocked, failed |-> NoExc, exit |-> NoExit]

CallIds(c)    == {c.calls[i].id : i \in DOMAIN c.calls}
CallOf(c, id) == c.calls[CHOOSE i \in DOMAIN c.calls : c.calls[i].id = id]
SetCall(c, id, st, p) ==
    [c EXCEPT !.calls = [i \in DOMAIN @ |-> IF @[i].id = id THEN [id |-> id, st |-> st, p |-> p] ELSE @[i]]]

\* Scheduler::get_pending_call_ids: every unresolved call, ascending
get_pending_call_ids(c) ==
    SortedSeq({c.calls[i].id : i \in {j \in DOMAIN c.calls : c.calls[j].st = "pending"}})

RaiseExc(c, exc) == [c EXCEPT !.exit = [k |-> "Err", exc |-> exc]]
Push(c, v)       == [c EXCEPT !.stack = Append(@, v)]
Next1(c)         == [c EXCEPT !.ip = @ + 1]

AllFutures(vals) == \A i \in DOMAIN vals : vals[i].t = "ExternalFuture"
FirstFailed(c, ids) ==
    LET bad == {i \in DOMAIN ids : CallOf(c, ids[i]).st = "err"}
    IN IF bad = {} THEN NoExc ELSE CallOf(c, ids[CHOOSE i \in bad : \A j \in bad : i <= j]).p
AllResolved(c, ids) == \A i \in DOMAIN ids : CallOf(c, ids[i]).st = "ok"

\* the value a blocked task receives once everything it waits for is resolved
Deliver(c, kind, ids) ==
    IF kind = "await" THEN Push(c, CallOf(c, ids[1]).p)
    ELSE LET items == [i \in DOMAIN ids |-> CallOf(c, ids[i]).p]
         IN [Push(c, Ref(Len(c.heap))) EXCEPT !.heap = HeapAlloc(c.heap, "Tuple", items)]

\* Await / Gather on futures ids: continue, raise, or block the task
WaitFor(c, kind, ids) ==
    IF FirstFailed(c, ids) # NoExc THEN RaiseExc(c, FirstFailed(c, ids))
    ELSE IF AllResolved(c, ids) THEN Deliver(c, kind, ids)
    ELSE [c EXCEPT !.blocked = [kind |-> kind, ids |-> ids],
                   !.exit = [k |-> "ResolveFutures", ids |-> get_pending_call_ids(c)]]

\* one instruction of the fetch-decode-execute loop
Step(code, c) ==
    LET ins == code[c.ip]
        d   == Next1(c)
        st  == c.stack
    IN CASE ins.op = "LoadConst" -> Push(d, IntV(ins.a))
         [] ins.op = "LoadNone" -> Push(d, NoneV)
         [] ins.op = "Pop" -> [d EXCEPT !.stack = Front(st)]
         [] ins.op = "BinaryAdd" ->
              LET x == st[Len(st) - 1]
                  y == st[Len(st)]
              IN IF x.t = "Int" /\ y.t = "Int"
                 THEN Push([d EXCEPT !.stack = DropLast(st, 2)], IntV(x.v + y.v))
                 ELSE RaiseExc(d, Exc("TypeError", "+"))
         [] ins.op = "LoadGlobal" ->
              IF c.ns[ins.a + 1] = Undefined
              THEN RaiseExc(d, Exc("NameError", ins.a))
              ELSE Push(d, c.ns[ins.a + 1])
         [] ins.op = "StoreGlobal" ->
              [d EXCEPT !.stack = Front(st), !.ns[ins.a + 1] = Last(st)]
         [] ins.op \in {"BuildList", "BuildTuple"} ->
              [d EXCEPT !.stack = Append(DropLast(st, ins.a), Ref(Len(c.heap))),
                        !.heap = HeapAlloc(c.heap, IF ins.op = "BuildList" THEN "List" ELSE "Tuple",
                                           TakeLast(st, ins.a))]
         [] ins.op = "CallExternal" ->
              [d EXCEPT !.stack = DropLast(st, ins.b),
                        !.next_call_id = @ + 1,
                        !.exit = [k |-> "ExternalCall", ext_function_id |-> ins.a,
                                  args |-> TakeLast(st, ins.b), call_id |-> c.next_call_id]]
         [] ins.op = "CallOs" ->
              [d EXCEPT !.stack = DropLast(st, ins.b),
                        !.next_call_id = @ + 1,
                        !.exit = [k |-> "OsCall", function |-> OsFunctions[ins.a + 1],
                                  args |-> TakeLast(st, ins.b), call_id |-> c.next_call_id]]
         [] ins.op = "Await" ->
              IF Last(st).t # "ExternalFuture"
              THEN RaiseExc(d, Exc("TypeError", "await"))
              ELSE WaitFor([d EXCEPT !.stack = Front(st)], "await", <<Last(st).v>>)
         [] ins.op = "Gather" ->
              IF ~AllFutures(TakeLast(st, ins.a))
              THEN RaiseExc(d, Exc("TypeError", "gather"))
              ELSE WaitFor([d EXCEPT !.stack = DropLast(st, ins.a)], "gather",
                           [i \in 1..ins.a |-> TakeLast(st, ins.a)[i].v])
         [] ins.op = "Return" ->
              [d EXCEPT !.stack = Front(st), !.exit = [k |-> "Return", value |-> Last(st)]]
         [] ins.op = "Raise" -> RaiseExc(d, Exc(ins.a, "raised"))

\* VM::run: execute until the frame exits
RECURSIVE VM_run(_, _)
VM_run(code, c) ==
    IF c.exit # NoExit THEN c
    ELSE IF c.blocked.kind # "none"
         THEN [c EXCEPT !.exit = [k |-> "ResolveFutures", ids |-> get_pending_call_ids(c)]]
         ELSE VM_run(code, Step(code, c))

VM_run_module(code, c) == VM_run(code, c)

\* VM::resume: push the host's value and continue
VM_resume(code, c, obj) == VM_run(code, Push(c, to_value(obj)))

\* VM::resume_with_exception: the suspended instruction raises
VM_resume_with_exception(code, c, exc) == RaiseExc(c, exc)

\* Scheduler::add_pending_call
add_pending_call(c, id) ==
    [c EXCEPT !.calls = Append(@, [id |-> id, st |-> "pending", p |-> Undefined])]

\* Scheduler::resolve / fail of one pending call
resolve_future(c, id, obj) == SetCall(c, id, "ok", to_value(obj))
fail_future(c, id, exc) ==
    LET e == SetCall(c, id, "err", exc)
    IN IF id \in Range(c.blocked.ids) /\ c.failed = NoExc THEN [e EXCEPT !.failed = exc] ELSE e

take_failed_task_error(c) == c.failed

\* unblock the main task when everything it waits for is resolved
main_task_ready(c) == c.blocked.kind # "none" /\ AllResolved(c, c.blocked.ids)
prepare_main_task_after_resolve(c) ==
    IF main_task_ready(c)
    THEN [Deliver(c, c.blocked.kind, c.blocked.ids) EXCEPT !.blocked = NotBlocked]
    ELSE c

\* no task besides the main task exists, so no ready task is ever loaded
load_ready_task_if_needed(c) == FALSE

\* VMSnapshot: the VM's own state; heap and namespaces travel beside it
VM_snapshot(c) ==
    [ip |-> c.ip, stack |-> c.stack, next_call_id |-> c.next_call_id,
     calls |-> c.calls, blocked |-> c.blocked]
NoSnapshot == [ip |-> 0]
check_snapshot(c) ==
    IF c.exit.k \in {"ExternalCall", "OsCall", "ResolveFutures"} THEN VM_snapshot(c) ELSE NoSnapshot
VM_restore(vm_state, heap, ns) ==
    [ip |-> vm_state.ip, stack |-> vm_state.stack, ns |-> ns, heap |-> heap,
     next_call_id |-> vm_state.next_call_id, calls |-> vm_state.calls,
     blocked |-> vm_state.blocked, failed |-> NoExc, exit |-> NoExit]

(***************************************************************************)
(* Host interface: MontyRun, Snapshot, FutureSnapshot.                     *)
(***************************************************************************)
\* Interns::get_external_function_name
get_external_function_name(interns, id) == interns.external_functions[id + 1]

\* mutant: the inputs are pushed before the external functions
prepare_namespaces_InputsFirst(executor, inputs) ==
    LET ex    == executor
        n_ext == Len(ex.external_function_ids)
        n_in  == Len(inputs)
    IN IF ex.namespace_size < n_ext + n_in
       THEN [ok |-> FALSE, exc |-> Exc("RuntimeError", "too many inputs for namespace")]
       ELSE IF \E i \in DOMAIN inputs : ~ValidInput(inputs[i])
       THEN [ok |-> FALSE, exc |-> Exc("RuntimeError", "invalid input type")]
       ELSE [ok |-> TRUE,
             ns |-> [i \in 1..ex.namespace_size |->
                       IF i <= n_in THEN to_value(inputs[i])
                       ELSE IF i <= n_in + n_ext THEN ExtFunction(ex.external_function_ids[i - n_in])
                       ELSE Undefined]]

\* Executor::prepare_namespaces: external functions, then inputs, then Undefined
prepare_namespaces(executor, inputs) ==
    LET ex    == executor
        n_ext == Len(ex.external_function_ids)
    IN IF ex.namespace_size < n_ext + Len(inputs)
       THEN [ok |-> FALSE, exc |-> Exc("RuntimeError", "too many inputs for namespace")]
       ELSE IF \E i \in DOMAIN inputs : ~ValidInput(inputs[i])
       THEN [ok |-> FALSE, exc |-> Exc("RuntimeError", "invalid input type")]
       ELSE [ok |-> TRUE,
             ns |-> [i \in 1..ex.namespace_size |->
                       IF i <= n_ext THEN ExtFunction(ex.external_function_ids[i])
                       ELSE IF i <= n_ext + Len(inputs) THEN to_value(inputs[i - n_ext])
                       ELSE Undefined]]

Err(exc, cleaned, calls) == [kind |-> "Err", exc |-> exc, cleanup |-> cleaned, calls |-> calls]

\* the new_snapshot! macro of handle_vm_result
new_snapshot(executor, vm_state, heap, namespaces, call_id) ==
    [executor |-> executor, vm_state |-> vm_state, heap |-> heap,
     namespaces |-> namespaces, pending_call_id |-> call_id]

\* mutant: the snapshot keeps the external function id where the call id belongs
handle_vm_result_SnapshotFunctionId(result, vm_state, executor, heap, namespaces) ==
    CASE result.k = "Return" ->
            [kind |-> "Complete", value |-> MontyObject_new(result.value, heap)]
      [] result.k = "ExternalCall" ->
            [kind |-> "FunctionCall",
             function_name |-> get_external_function_name(executor.interns, result.ext_function_id),
             args |-> into_py_objects(result.args, heap), kwargs |-> <<>>,
             call_id |-> result.call_id,
             state |-> new_snapshot(executor, vm_state, heap, namespaces, result.ext_function_id)]
      [] result.k = "OsCall" ->
            [kind |-> "OsCall", function |-> result.function,
             args |-> into_py_objects(result.args, heap), kwargs |-> <<>>,
             call_id |-> result.call_id,
             state |-> new_snapshot(executor, vm_state, heap, namespaces, result.call_id)]
      [] result.k = "ResolveFutures" ->
            [kind |-> "ResolveFutures",
             state |-> [executor |-> executor, vm_state |-> vm_state, heap |-> heap,
                        namespaces |-> namespaces, pending_call_ids |-> result.ids]]
      [] result.k = "Err" -> Err(result.exc, FALSE, <<>>)

\* mutant: the external function id is reported where the call id belongs
handle_vm_result_WrongId(result, vm_state, executor, heap, namespaces) ==
    CASE result.k = "Return" ->
            [kind |-> "Complete", value |-> MontyObject_new(result.value, heap)]
      [] result.k = "ExternalCall" ->
            [kind |-> "FunctionCall",
             function_name |-> get_external_function_name(executor.interns, result.ext_function_id),
             args |-> into_py_objects(result.args, heap), kwargs |-> <<>>,
             call_id |-> result.ext_function_id,
             state |-> new_snapshot(executor, vm_state, heap, namespaces, result.ext_function_id)]
      [] result.k = "OsCall" ->
            [kind |-> "OsCall", function |-> result.function,
             args |-> into_py_objects(result.args, heap), kwargs |-> <<>>,
             call_id |-> result.call_id,
             state |-> new_snapshot(executor, vm_state, heap, namespaces, result.call_id)]
      [] result.k = "ResolveFutures" ->
            [kind |-> "ResolveFutures",
             state |-> [executor |-> executor, vm_state |-> vm_state, heap |-> heap,
                        namespaces |-> namespaces, pending_call_ids |-> result.ids]]
      [] result.k = "Err" -> Err(result.exc, FALSE, <<>>)

handle_vm_result(result, vm_state, executor, heap, namespaces) ==
    CASE result.k = "Return" ->
            [kind |-> "Complete", value |-> MontyObject_new(result.value, heap)]
      [] result.k = "ExternalCall" ->
            [kind |-> "FunctionCall",
             function_name |-> get_external_function_name(executor.interns, result.ext_function_id),
             args |-> into_py_objects(result.args, heap), kwargs |-> <<>>,
             call_id |-> result.call_id,
             state |-> new_snapshot(executor, vm_state, heap, namespaces, result.call_id)]
      [] result.k = "OsCall" ->
            [kind |-> "OsCall", function |-> result.function,
             args |-> into_py_objects(result.args, heap), kwargs |-> <<>>,
             call_id |-> result.call_id,
             state |-> new_snapshot(executor, vm_state, heap, namespaces, result.call_id)]
      [] result.k = "ResolveFutures" ->
            [kind |-> "ResolveFutures",
             state |-> [executor |-> executor, vm_state |-> vm_state, heap |-> heap,
                        namespaces |-> namespaces, pending_call_ids |-> result.ids]]
      [] result.k = "Err" -> Err(result.exc, FALSE, <<>>)

Handle(c, executor) == handle_vm_result(c.exit, check_snapshot(c), executor, c.heap, c.ns)

\* MontyRun::start
MontyRun_start(executor, inputs) ==
    LET prep == prepare_namespaces(executor, inputs)
    IN IF ~prep.ok THEN Err(prep.exc, FALSE, <<>>)
       ELSE Handle(VM_run_module(executor.module_code, VM_new(<<>>, prep.ns)), executor)

\* mutant: the host's return value is dropped and None is pushed in its place
Snapshot_run_DropsValue(self, ext_result) ==
    LET code == self.executor.module_code
        vm   == VM_restore(self.vm_state, self.heap, self.namespaces)
        vm_result ==
            CASE ext_result.r = "Return" -> VM_resume(code, vm, ObjNone)
              [] ext_result.r = "Error" -> VM_resume_with_exception(code, vm, ext_result.exc)
              [] ext_result.r = "Future" ->
                    VM_run(code, Push(add_pending_call(vm, self.pending_call_id),
                                      ExternalFuture(self.pending_call_id)))
    IN Handle(vm_result, self.executor)

\* mutant: the future is created for the VM's next call id, not the snapshot's
Snapshot_run_NextId(self, ext_result) ==
    LET code == self.executor.module_code
        vm   == VM_restore(self.vm_state, self.heap, self.namespaces)
        vm_result ==
            CASE ext_result.r = "Return" -> VM_resume(code, vm, ext_result.obj)
              [] ext_result.r = "Error" -> VM_resume_with_exception(code, vm, ext_result.exc)
              [] ext_result.r = "Future" ->
                    VM_run(code, Push(add_pending_call(vm, self.vm_state.next_call_id),
                                      ExternalFuture(self.vm_state.next_call_id)))
    IN Handle(vm_result, self.executor)

\* Snapshot::run
Snapshot_run(self, ext_result) ==
    LET code == self.executor.module_code
        vm   == VM_restore(self.vm_state, self.heap, self.namespaces)
        vm_result ==
            CASE ext_result.r = "Return" -> VM_resume(code, vm, ext_result.obj)
              [] ext_result.r = "Error" -> VM_resume_with_exception(code, vm, ext_result.exc)
              [] ext_result.r = "Future" ->
                    VM_run(code, Push(add_pending_call(vm, self.pending_call_id),
                                      ExternalFuture(self.pending_call_id)))
    IN Handle(vm_result, self.executor)

\* Snapshot::run_pending
Snapshot_run_pending(self) == Snapshot_run(self, Future)

\* mutant: a Future marker resolves its call with None
RECURSIVE ApplyResults_MarkerResolves(_, _)
ApplyResults_MarkerResolves(vm, results) ==
    IF results = <<>> THEN vm
    ELSE LET call_id    == Head(results)[1]
             ext_result == Head(results)[2]
             vm2 == CASE ext_result.r = "Return" -> resolve_future(vm, call_id, ext_result.obj)
                      [] ext_result.r = "Error" -> fail_future(vm, call_id, ext_result.exc)
                      [] ext_result.r = "Future" -> resolve_future(vm, call_id, ObjNone)
         IN ApplyResults_MarkerResolves(vm2, Tail(results))

\* the loop of FutureSnapshot::resume applying the results in order
RECURSIVE ApplyResults(_, _)
ApplyResults(vm, results) ==
    IF results = <<>> THEN vm
    ELSE LET call_id    == Head(results)[1]
             ext_result == Head(results)[2]
             vm2 == CASE ext_result.r = "Return" -> resolve_future(vm, call_id, ext_result.obj)
                      [] ext_result.r = "Error" -> fail_future(vm, call_id, ext_result.exc)
                      [] ext_result.r = "Future" -> vm
         IN ApplyResults(vm2, Tail(results))

\* the first call id of results that is not pending, or -1
invalid_call_id(results, pending_call_ids) ==
    LET bad == {i \in DOMAIN results : results[i][1] \notin Range(pending_call_ids)}
    IN IF bad = {} THEN -1 ELSE results[CHOOSE i \in bad : \A j \in bad : i <= j][1]

\* the first entry of results whose returned value the VM refuses, or 0
invalid_return(results) ==
    LET bad == {i \in DOMAIN results :
                  results[i][2].r = "Return" /\ ~ValidInput(results[i][2].obj)}
    IN IF bad = {} THEN 0 ELSE CHOOSE i \in bad : \A j \in bad : i <= j

\* the `?` of the loop: the error of the refused entry, after the entries before it were applied
InvalidReturnType(vm, results) ==
    Err(Exc("RuntimeError", <<"Invalid return type for call", results[invalid_return(results)][1]>>),
        FALSE, ApplyResults(vm, SubSeq(results, 1, invalid_return(results) - 1)).calls)

\* mutant: the snapshot's old pending list is returned instead of the scheduler's
FutureSnapshot_resume_StalePending(self, results) ==
    LET code    == self.executor.module_code
        invalid == invalid_call_id(results, self.pending_call_ids)
        vm      == VM_restore(self.vm_state, self.heap, self.namespaces)
        vm1     == ApplyResults(vm, results)
        vm2     == prepare_main_task_after_resolve(vm1)
    IN IF invalid # -1
       THEN Err(Exc("RuntimeError", <<"unknown call_id", invalid>>), TRUE, vm.calls)
       ELSE IF take_failed_task_error(vm1) # NoExc
       THEN Err(take_failed_task_error(vm1), TRUE, vm1.calls)
       ELSE IF ~main_task_ready(vm1) /\ ~load_ready_task_if_needed(vm2)
               /\ get_pending_call_ids(vm2) # <<>>
       THEN [kind |-> "ResolveFutures",
             state |-> [executor |-> self.executor, vm_state |-> VM_snapshot(vm2),
                        heap |-> vm2.heap, namespaces |-> vm2.ns,
                        pending_call_ids |-> self.pending_call_ids]]
       ELSE Handle(VM_run(code, vm2), self.executor)

\* mutant: the results are applied before the call ids are validated
FutureSnapshot_resume_LateCheck(self, results) ==
    LET code    == self.executor.module_code
        invalid == invalid_call_id(results, self.pending_call_ids)
        vm      == VM_restore(self.vm_state, self.heap, self.namespaces)
        vm1     == ApplyResults(vm, results)
        vm2     == prepare_main_task_after_resolve(vm1)
    IN IF invalid # -1
       THEN Err(Exc("RuntimeError", <<"unknown call_id", invalid>>), TRUE, vm1.calls)
       ELSE IF take_failed_task_error(vm1) # NoExc
       THEN Err(take_failed_task_error(vm1), TRUE, vm1.calls)
       ELSE IF ~main_task_ready(vm1) /\ ~load_ready_task_if_needed(vm2)
               /\ get_pending_call_ids(vm2) # <<>>
       THEN [kind |-> "ResolveFutures",
             state |-> [executor |-> self.executor, vm_state |-> VM_snapshot(vm2),
                        heap |-> vm2.heap, namespaces |-> vm2.ns,
                        pending_call_ids |-> get_pending_call_ids(vm2)]]
       ELSE Handle(VM_run(code, vm2), self.executor)

\* FutureSnapshot::resume
FutureSnapshot_resume(self, results) ==
    LET code    == self.executor.module_code
        invalid == invalid_call_id(results, self.pending_call_ids)
        vm      == VM_restore(self.vm_state, self.heap, self.namespaces)
        vm1     == ApplyResults(vm, results)
        vm2     == prepare_main_task_after_resolve(vm1)
    IN IF invalid # -1
       THEN Err(Exc("RuntimeError", <<"unknown call_id", invalid>>), TRUE, vm.calls)
       ELSE IF invalid_return(results) # 0
       THEN InvalidReturnType(vm, results)
       ELSE IF take_failed_task_error(vm1) # NoExc
       THEN Err(take_failed_task_error(vm1), TRUE, vm1.calls)
       ELSE IF ~main_task_ready(vm1) /\ ~load_ready_task_if_needed(vm2)
               /\ get_pending_call_ids(vm2) # <<>>
       THEN [kind |-> "ResolveFutures",
             state |-> [executor |-> self.executor, vm_state |-> VM_snapshot(vm2),
                        heap |-> vm2.heap, namespaces |-> vm2.ns,
                        pending_call_ids |-> get_pending_call_ids(vm2)]]
       ELSE Handle(VM_run(code, vm2), self.executor)

(***************************************************************************)
(* Serialization: dump and load.  postcard writes a value field by field   *)
(* in declaration order: an enum as its variant index, a sequence as its   *)
(* length and elements, a signed integer zig-zag encoded, a string as its  *)
(* bytes (here: its number in StrTable).  A blob is a sequence of naturals.*)
(***************************************************************************)
ValueTags     == <<"Undefined", "None", "Int", "ExternalFuture", "Ref", "ExtFunction">>
ObjectTags    == <<"None", "Int", "List", "Tuple", "Repr">>
HeapTags      == <<"List", "Tuple">>
CallStates    == <<"pending", "ok", "err">>
BlockKinds    == <<"none", "await", "gather">>
ProgressKinds == <<"FunctionCall", "OsCall", "ResolveFutures", "Complete">>
OpNames ==
    <<"LoadConst", "LoadNone", "Pop", "BinaryAdd", "LoadGlobal", "StoreGlobal", "BuildList",
      "BuildTuple", "CallExternal", "CallOs", "Await", "Gather", "Return", "Raise">>
StrTable ==
    ExtFunctionNames \o OsFunctions \o Programs \o Snippets \o StartSnippets
    \o <<"a", "b", "c", "x", "y", "z", "v", "ValueError", "TypeError", "NameError", "RuntimeError",
         "host", "raised", "Undefined", "ExternalFuture", "ExtFunction">>

TagCode(table, x) == IndexOf(table, x) - 1
StrCode(x)        == IndexOf(StrTable, x) - 1
ZigZag(n)         == IF n >= 0 THEN 2 * n ELSE -2 * n - 1
UnZigZag(u)       == IF u % 2 = 0 THEN u \div 2 ELSE -((u + 1) \div 2)

\* ---- serialize ----
EncValue(v) ==
    <<TagCode(ValueTags, v.t)>>
    \o (CASE v.t = "Int" -> <<ZigZag(v.v)>>
          [] v.t \in {"ExternalFuture", "Ref", "ExtFunction"} -> <<v.v>>
          [] OTHER -> <<>>)
EncValues(vs) == <<Len(vs)>> \o Concat([i \in DOMAIN vs |-> EncValue(vs[i])])

RECURSIVE EncObject(_)
EncObject(obj) ==
    <<TagCode(ObjectTags, obj.o)>>
    \o (CASE obj.o = "Int" -> <<ZigZag(obj.v)>>
          [] obj.o = "None" -> <<>>
          [] obj.o \in {"List", "Tuple"} ->
                <<Len(obj.v)>> \o Concat([i \in DOMAIN obj.v |-> EncObject(obj.v[i])])
          [] obj.o = "Repr" -> <<StrCode(obj.v)>>)
EncObjects(objs) == <<Len(objs)>> \o Concat([i \in DOMAIN objs |-> EncObject(objs[i])])

EncU32s(ids)  == <<Len(ids)>> \o ids
EncStrs(strs) == <<Len(strs)>> \o [i \in DOMAIN strs |-> StrCode(strs[i])]
EncExc(e)     == <<StrCode(e.type), StrCode(e.arg)>>

EncInstr(ins) ==
    <<TagCode(OpNames, ins.op), IF ins.op = "Raise" THEN StrCode(ins.a) ELSE ins.a, ins.b>>
EncCode(code) == <<Len(code)>> \o Concat([i \in DOMAIN code |-> EncInstr(code[i])])
EncNameMap(m) ==
    <<Len(m)>> \o Concat([i \in DOMAIN m |-> <<StrCode(m[i].name), m[i].slot>>])
EncInterns(interns) ==
    EncStrs(interns.strings) \o EncU32s(interns.functions) \o EncStrs(interns.external_functions)

\* struct Executor
EncExecutor(ex) ==
    <<ex.namespace_size>> \o EncNameMap(ex.name_map) \o EncCode(ex.module_code)
    \o EncInterns(ex.interns) \o EncU32s(ex.external_function_ids)
    \o <<StrCode(ex.code), ex.heap_capacity>>

EncCall(c) ==
    <<c.id, TagCode(CallStates, c.st)>>
    \o (CASE c.st = "pending" -> <<>>
          [] c.st = "ok" -> EncValue(c.p)
          [] c.st = "err" -> EncExc(c.p))
EncVMSnapshot(vs) ==
    <<vs.ip>> \o EncValues(vs.stack) \o <<vs.next_call_id>>
    \o <<Len(vs.calls)>> \o Concat([i \in DOMAIN vs.calls |-> EncCall(vs.calls[i])])
    \o <<TagCode(BlockKinds, vs.blocked.kind)>> \o EncU32s(vs.blocked.ids)
EncHeap(heap) ==
    <<Len(heap)>>
    \o Concat([i \in DOMAIN heap |-> <<TagCode(HeapTags, heap[i].t)>> \o EncValues(heap[i].items)])

\* mutant: the snapshot's pending call id is not written; the field reads back as 0
EncSnapshot_StaleCallId(snap) ==
    EncExecutor(snap.executor) \o EncVMSnapshot(snap.vm_state) \o EncHeap(snap.heap)
    \o EncValues(snap.namespaces) \o <<0>>

\* struct Snapshot
EncSnapshot(snap) ==
    EncExecutor(snap.executor) \o EncVMSnapshot(snap.vm_state) \o EncHeap(snap.heap)
    \o EncValues(snap.namespaces) \o <<snap.pending_call_id>>

\* struct FutureSnapshot
EncFutureSnapshot(snap) ==
    EncExecutor(snap.executor) \o EncVMSnapshot(snap.vm_state) \o EncHeap(snap.heap)
    \o EncValues(snap.namespaces) \o EncU32s(snap.pending_call_ids)

\* RunProgress::dump
RunProgress_dump(self) ==
    <<TagCode(ProgressKinds, self.kind)>>
    \o (CASE self.kind = "FunctionCall" ->
                <<StrCode(self.function_name)>> \o EncObjects(self.args)
                \o EncObjects(self.kwargs) \o <<self.call_id>> \o EncSnapshot(self.state)
          [] self.kind = "OsCall" ->
                <<TagCode(OsFunctions, self.function)>> \o EncObjects(self.args)
                \o EncObjects(self.kwargs) \o <<self.call_id>> \o EncSnapshot(self.state)
          [] self.kind = "ResolveFutures" -> EncFutureSnapshot(self.state)
          [] self.kind = "Complete" -> EncObject(self.value))

\* ---- deserialize: each reader returns the value read and the next position ----
Fail      == [ok |-> FALSE, v |-> 0, pos |-> 0]
D(v, pos) == [ok |-> TRUE, v |-> v, pos |-> pos]
Then(r, F(_)) == IF r.ok THEN F(r) ELSE Fail

DecNat(toks, pos) == IF pos \in DOMAIN toks THEN D(toks[pos], pos + 1) ELSE Fail
DecTag(table, toks, pos) ==
    IF pos \in DOMAIN toks /\ toks[pos] + 1 \in DOMAIN table
    THEN D(table[toks[pos] + 1], pos + 1) ELSE Fail
DecStr(toks, pos) == DecTag(StrTable, toks, pos)

RECURSIVE DecOne(_, _, _)
RECURSIVE DecMany(_, _, _, _)
\* a sequence: its length, then that many elements
DecVec(kind, toks, pos) ==
    Then(DecNat(toks, pos),
         LAMBDA n : IF n.v > Len(toks) THEN Fail ELSE DecMany(kind, toks, n.pos, n.v))

DecValue(toks, pos) ==
    Then(DecTag(ValueTags, toks, pos), LAMBDA tg :
        CASE tg.v = "Int" ->
                Then(DecNat(toks, tg.pos), LAMBDA n : D(IntV(UnZigZag(n.v)), n.pos))
          [] tg.v \in {"ExternalFuture", "Ref", "ExtFunction"} ->
                Then(DecNat(toks, tg.pos), LAMBDA n : D([t |-> tg.v, v |-> n.v], n.pos))
          [] OTHER -> D([t |-> tg.v, v |-> 0], tg.pos))

DecObject(toks, pos) ==
    Then(DecTag(ObjectTags, toks, pos), LAMBDA tg :
        CASE tg.v = "Int" ->
                Then(DecNat(toks, tg.pos), LAMBDA n : D(ObjInt(UnZigZag(n.v)), n.pos))
          [] tg.v = "None" -> D(ObjNone, tg.pos)
          [] tg.v \in {"List", "Tuple"} ->
                Then(DecVec("Object", toks, tg.pos), LAMBDA items : D(ObjSeq(tg.v, items.v), items.pos))
          [] tg.v = "Repr" ->
                Then(DecStr(toks, tg.pos), LAMBDA w : D(ObjRepr(w.v), w.pos)))

DecExc(toks, pos) ==
    Then(DecStr(toks, pos), LAMBDA ty :
    Then(DecStr(toks, ty.pos), LAMBDA a : D(Exc(ty.v, a.v), a.pos)))

DecInstr(toks, pos) ==
    Then(DecTag(OpNames, toks, pos), LAMBDA op :
    Then(IF op.v = "Raise" THEN DecStr(toks, op.pos) ELSE DecNat(toks, op.pos), LAMBDA a :
    Then(DecNat(toks, a.pos), LAMBDA b : D([op |-> op.v, a |-> a.v, b |-> b.v], b.pos))))

DecNameEntry(toks, pos) ==
    Then(DecStr(toks, pos), LAMBDA n :
    Then(DecNat(toks, n.pos), LAMBDA sl : D([name |-> n.v, slot |-> sl.v], sl.pos)))

DecCall(toks, pos) ==
    Then(DecNat(toks, pos), LAMBDA id :
    Then(DecTag(CallStates, toks, id.pos), LAMBDA st :
        CASE st.v = "pending" -> D([id |-> id.v, st |-> st.v, p |-> Undefined], st.pos)
          [] st.v = "ok" ->
                Then(DecValue(toks, st.pos), LAMBDA p : D([id |-> id.v, st |-> st.v, p |-> p.v], p.pos))
          [] st.v = "err" ->
                Then(DecExc(toks, st.pos), LAMBDA p : D([id |-> id.v, st |-> st.v, p |-> p.v], p.pos))))

DecHeapEntry(toks, pos) ==
    Then(DecTag(HeapTags, toks, pos), LAMBDA tg :
    Then(DecVec("Value", toks, tg.pos), LAMBDA items :
        D([t |-> tg.v, items |-> items.v], items.pos)))

DecOne(kind, toks, pos) ==
    CASE kind = "u32"       -> DecNat(toks, pos)
      [] kind = "Str"       -> DecStr(toks, pos)
      [] kind = "Value"     -> DecValue(toks, pos)
      [] kind = "Object"    -> DecObject(toks, pos)
      [] kind = "Instr"     -> DecInstr(toks, pos)
      [] kind = "NameEntry" -> DecNameEntry(toks, pos)
      [] kind = "Call"      -> DecCall(toks, pos)
      [] kind = "HeapEntry" -> DecHeapEntry(toks, pos)

DecMany(kind, toks, pos, n) ==
    IF n = 0 THEN D(<<>>, pos)
    ELSE Then(DecOne(kind, toks, pos), LAMBDA h :
         Then(DecMany(kind, toks, h.pos, n - 1), LAMBDA t : D(<<h.v>> \o t.v, t.pos)))

DecInterns(toks, pos) ==
    Then(DecVec("Str", toks, pos), LAMBDA strings :
    Then(DecVec("u32", toks, strings.pos), LAMBDA functions :
    Then(DecVec("Str", toks, functions.pos), LAMBDA ext :
        D(Interns_new(strings.v, functions.v, ext.v), ext.pos))))

DecExecutor(toks, pos) ==
    Then(DecNat(toks, pos), LAMBDA size :
    Then(DecVec("NameEntry", toks, size.pos), LAMBDA name_map :
    Then(DecVec("Instr", toks, name_map.pos), LAMBDA code :
    Then(DecInterns(toks, code.pos), LAMBDA interns :
    Then(DecVec("u32", toks, interns.pos), LAMBDA ids :
    Then(DecStr(toks, ids.pos), LAMBDA src :
    Then(DecNat(toks, src.pos), LAMBDA cap :
        D([namespace_size |-> size.v, name_map |-> name_map.v, module_code |-> code.v,
           interns |-> interns.v, external_function_ids |-> ids.v, code |-> src.v,
           heap_capacity |-> cap.v], cap.pos))))))))

DecVMSnapshot(toks, pos) ==
    Then(DecNat(toks, pos), LAMBDA ip :
    Then(DecVec("Value", toks, ip.pos), LAMBDA stack :
    Then(DecNat(toks, stack.pos), LAMBDA next :
    Then(DecVec("Call", toks, next.pos), LAMBDA calls :
    Then(DecTag(BlockKinds, toks, calls.pos), LAMBDA kind :
    Then(DecVec("u32", toks, kind.pos), LAMBDA ids :
        D([ip |-> ip.v, stack |-> stack.v, next_call_id |-> next.v, calls |-> calls.v,
           blocked |-> [kind |-> kind.v, ids |-> ids.v]], ids.pos)))))))

\* the four fields every suspended state starts with
DecState(toks, pos) ==
    Then(DecExecutor(toks, pos), LAMBDA ex :
    Then(DecVMSnapshot(toks, ex.pos), LAMBDA vs :
    Then(DecVec("HeapEntry", toks, vs.pos), LAMBDA heap :
    Then(DecVec("Value", toks, heap.pos), LAMBDA ns :
        D([executor |-> ex.v, vm_state |-> vs.v, heap |-> heap.v, namespaces |-> ns.v],
          ns.pos)))))

DecSnapshot(toks, pos) ==
    Then(DecState(toks, pos), LAMBDA st :
    Then(DecNat(toks, st.pos), LAMBDA id :
        D([executor |-> st.v.executor, vm_state |-> st.v.vm_state, heap |-> st.v.heap,
           namespaces |-> st.v.namespaces, pending_call_id |-> id.v], id.pos)))

DecFutureSnapshot(toks, pos) ==
    Then(DecState(toks, pos), LAMBDA st :
    Then(DecVec("u32", toks, st.pos), LAMBDA ids :
        D([executor |-> st.v.executor, vm_state |-> st.v.vm_state, heap |-> st.v.heap,
           namespaces |-> st.v.namespaces, pending_call_ids |-> ids.v], ids.pos)))

DecCallProgress(kind, name, toks, pos) ==
    Then(DecVec("Object", toks, pos), LAMBDA args :
    Then(DecVec("Object", toks, args.pos), LAMBDA kwargs :
    Then(DecNat(toks, kwargs.pos), LAMBDA id :
    Then(DecSnapshot(toks, id.pos), LAMBDA st :
        D(IF kind = "FunctionCall"
          THEN [kind |-> kind, function_name |-> name, args |-> args.v, kwargs |-> kwargs.v,
                call_id |-> id.v, state |-> st.v]
          ELSE [kind |-> kind, function |-> name, args |-> args.v, kwargs |-> kwargs.v,
                call_id |-> id.v, state |-> st.v], st.pos)))))

DecRunProgress(toks, pos) ==
    Then(DecTag(ProgressKinds, toks, pos), LAMBDA k :
        CASE k.v = "FunctionCall" ->
                Then(DecStr(toks, k.pos), LAMBDA f : DecCallProgress(k.v, f.v, toks, f.pos))
          [] k.v = "OsCall" ->
                Then(DecTag(OsFunctions, toks, k.pos), LAMBDA f :
                    DecCallProgress(k.v, f.v, toks, f.pos))
          [] k.v = "ResolveFutures" ->
                Then(DecFutureSnapshot(toks, k.pos), LAMBDA st :
                    D([kind |-> k.v, state |-> st.v], st.pos))
          [] k.v = "Complete" ->
                Then(DecObject(toks, k.pos), LAMBDA o : D([kind |-> k.v, value |-> o.v], o.pos)))

\* RunProgress::load: the decoded progress, or the decoder's error
LoadErr == [kind |-> "LoadErr"]
RunProgress_load(bytes) ==
    LET r == DecRunProgress(bytes, 1)
    IN IF r.ok THEN r.v ELSE LoadErr

(***************************************************************************)
(* The run as the host drives it.                                          *)
(***************************************************************************)
Suspended(p) == p.kind \in {"FunctionCall", "OsCall", "ResolveFutures"}
IsCall(p)    == p.kind \in {"FunctionCall", "OsCall"}

NoOp == [op |-> "none"]

\* record what the step did: ids issued, deferred and resolved, and the host's answers
Issue(h, p) == IF IsCall(p) THEN [h EXCEPT !.issued = Append(@, p.call_id)] ELSE h

\* result lists the host may pass to resume: distinct call ids, known or not
CandidateIds(fs) == 0..(fs.vm_state.next_call_id - 1 + ExtraCallIds)
ResultEntries(fs) == CandidateIds(fs) \X ResumeResults
RECURSIVE ResultListsN(_, _)
ResultListsN(fs, n) ==
    IF n = 0 THEN {<<>>}
    ELSE LET shorter == ResultListsN(fs, n - 1)
         IN shorter \cup
            {Append(l, e) : l \in {x \in shorter : Len(x) = n - 1}, e \in ResultEntries(fs)}
ResultLists(fs) ==
    {l \in ResultListsN(fs, MaxResults) :
        \A i, j \in DOMAIN l : i # j => l[i][1] # l[j][1]}

\* hist.twin is the same run driven by the same host answers but never serialized;
\* hist.loaded holds the kinds of progress that went through dump and load
NoHist ==
    [issued |-> <<>>, deferred |-> {}, resolved |-> {}, answers |-> <<>>, last |-> NoOp,
     twin |-> [kind |-> "New"], loaded |-> {}]

InitRun ==
    /\ prog \in DOMAIN Programs
    /\ progress = [kind |-> "New"]
    /\ hist = NoHist

Start ==
    /\ progress.kind = "New"
    /\ progress' = MontyRun_start(Executor(prog), <<>>)
    /\ hist' = [Issue(hist, progress') EXCEPT !.last = [op |-> "start"], !.twin = progress']
    /\ UNCHANGED <<prog, sync, repl, replOut>>

SnapshotRun ==
    /\ IsCall(progress)
    /\ \E res \in HostResults \ {Future} :
         /\ progress' = Snapshot_run(progress.state, res)
         /\ hist' = [Issue(hist, progress') EXCEPT
                        !.answers = Append(@, res),
                        !.last = [op |-> "run", result |-> res, call_id |-> progress.call_id],
                        !.twin = IF @ = progress THEN progress' ELSE Snapshot_run(@.state, res)]
    /\ UNCHANGED <<prog, sync, repl, replOut>>

SnapshotRunPending ==
    /\ IsCall(progress)
    /\ progress' = Snapshot_run_pending(progress.state)
    /\ hist' = [Issue(hist, progress') EXCEPT
                   !.answers = Append(@, Future),
                   !.deferred = @ \cup {progress.call_id},
                   !.last = [op |-> "run_pending", result |-> Future, call_id |-> progress.call_id,
                             ip |-> progress.state.vm_state.ip],
                   !.twin = IF @ = progress THEN progress' ELSE Snapshot_run_pending(@.state)]
    /\ UNCHANGED <<prog, sync, repl, replOut>>

\* the ids a results list resolves when it is applied
ResolvedBy(results) == {results[i][1] : i \in {j \in DOMAIN results : results[j][2].r # "Future"}}

Resume ==
    /\ progress.kind = "ResolveFutures"
    /\ \E results \in ResultLists(progress.state) :
         /\ progress' = FutureSnapshot_resume(progress.state, results)
         /\ hist' = [Issue(hist, progress') EXCEPT
                        !.resolved = IF progress'.kind = "Err" /\ progress'.exc.type = "RuntimeError"
                                     THEN @ ELSE @ \cup ResolvedBy(results),
                        !.last = [op |-> "resume", results |-> results,
                                  pending |-> progress.state.pending_call_ids,
                                  calls |-> progress.state.vm_state.calls,
                                  blocked |-> progress.state.vm_state.blocked.ids],
                        !.twin = IF @ = progress THEN progress'
                                 ELSE FutureSnapshot_resume(@.state, results)]
    /\ UNCHANGED <<prog, sync, repl, replOut>>

\* the host serializes the suspended progress and continues from the loaded copy
DumpLoad ==
    /\ Suspended(progress)
    /\ progress' = RunProgress_load(RunProgress_dump(progress))
    /\ hist' = [hist EXCEPT !.loaded = @ \cup {progress.kind}]
    /\ UNCHANGED <<prog, sync, repl, replOut>>

\* a blob whose snapshot names a heap id or an external function id that does not exist:
\* the dump of a suspended state with one stack or namespace slot rewritten
Dangling(st) ==
    {Ref(Len(st.heap)), ExtFunction(Len(st.executor.interns.external_functions))}
ForeignStates(st) ==
    {[st EXCEPT !.namespaces[i] = v] : i \in DOMAIN st.namespaces, v \in Dangling(st)}
    \cup {[st EXCEPT !.vm_state.stack[i] = v] : i \in DOMAIN st.vm_state.stack, v \in Dangling(st)}
ForeignBlobs(p) ==
    {RunProgress_dump([p EXCEPT !.state = st]) : st \in ForeignStates(p.state)}
\* a blob cut short, and one with a variant index no progress has
BrokenBlobs(p) ==
    {Front(RunProgress_dump(p)), <<Len(ProgressKinds)>> \o Tail(RunProgress_dump(p))}

\* RunProgress::load on a blob that was not produced by dump
LoadForeign ==
    /\ Suspended(progress)
    /\ \E bytes \in ForeignBlobs(progress) \cup BrokenBlobs(progress) :
         progress' = [kind |-> "Loaded", result |-> RunProgress_load(bytes)]
    /\ hist' = [hist EXCEPT !.last = [op |-> "load"]]
    /\ UNCHANGED <<prog, sync, repl, replOut>>


(***************************************************************************)
(* Synchronous execution: Executor::run and frame_exit_to_object.          *)
(***************************************************************************)
NoResult == [kind |-> "None"]
NoSync   == [mode |-> "off"]

\* mutant: an external call under synchronous execution yields None instead of raising
frame_exit_to_object_CallIsNone(frame_exit_result, heap, interns) ==
    CASE frame_exit_result.k = "Err" -> [kind |-> "Err", exc |-> frame_exit_result.exc]
      [] frame_exit_result.k = "Return" ->
            [kind |-> "Value", value |-> MontyObject_new(frame_exit_result.value, heap)]
      [] frame_exit_result.k = "ExternalCall" -> [kind |-> "Value", value |-> ObjNone]
      [] frame_exit_result.k = "OsCall" ->
            [kind |-> "Err", exc |-> Exc("NotImplementedError", frame_exit_result.function)]
      [] frame_exit_result.k = "ResolveFutures" ->
            [kind |-> "Err", exc |-> Exc("NotImplementedError", "async futures")]

frame_exit_to_object(frame_exit_result, heap, interns) ==
    CASE frame_exit_result.k = "Err" -> [kind |-> "Err", exc |-> frame_exit_result.exc]
      [] frame_exit_result.k = "Return" ->
            [kind |-> "Value", value |-> MontyObject_new(frame_exit_result.value, heap)]
      [] frame_exit_result.k = "ExternalCall" ->
            [kind |-> "Err",
             exc |-> Exc("NotImplementedError",
                         get_external_function_name(interns, frame_exit_result.ext_function_id))]
      [] frame_exit_result.k = "OsCall" ->
            [kind |-> "Err", exc |-> Exc("NotImplementedError", frame_exit_result.function)]
      [] frame_exit_result.k = "ResolveFutures" ->
            [kind |-> "Err", exc |-> Exc("NotImplementedError", "async futures")]

\* Executor::run (MontyRun::run): run the module once and convert the frame exit
Executor_run(executor, inputs) ==
    LET prep == prepare_namespaces(executor, inputs)
        vm   == VM_run_module(executor.module_code, VM_new(<<>>, prep.ns))
    IN IF ~prep.ok
       THEN [mode |-> "program", exit |-> [k |-> "Err", exc |-> prep.exc], heap |-> <<>>,
             result |-> [kind |-> "Err", exc |-> prep.exc],
             heap_capacity |-> executor.heap_capacity]
       ELSE [mode |-> "program", exit |-> vm.exit, heap |-> vm.heap,
             result |-> frame_exit_to_object(vm.exit, vm.heap, executor.interns),
             heap_capacity |-> IF Len(vm.heap) > executor.heap_capacity THEN Len(vm.heap)
                               ELSE executor.heap_capacity]

\* frame exits frame_exit_to_object is applied to, one set per variant
SampleHeap == <<[t |-> "List", items |-> <<IntV(7)>>]>>
ReturnExits  == {[k |-> "Return", value |-> v] : v \in {IntV(0), IntV(42), NoneV, Ref(0)}}
ExternalExits ==
    {[k |-> "ExternalCall", ext_function_id |-> e, args |-> a, call_id |-> c] :
        e \in {0, 1}, a \in {<<>>, <<IntV(1)>>, <<Ref(0)>>}, c \in 0..2}
OsExits ==
    {[k |-> "OsCall", function |-> OsFunctions[1], args |-> a, call_id |-> c] :
        a \in {<<>>, <<IntV(1)>>, <<Ref(0)>>}, c \in 0..2}
FutureExits ==
    {[k |-> "ResolveFutures", ids |-> SortedSeq(S)] : S \in (SUBSET (0..2)) \ {{}}}
ErrExits ==
    {[k |-> "Err", exc |-> Exc(ty, "raised")] : ty \in {"ValueError", "TypeError", "NameError"}}

Idle == [kind |-> "Idle"]

InitSync ==
    /\ progress = Idle
    /\ hist = NoHist
    /\ \/ /\ prog \in DOMAIN Programs
          /\ sync = [mode |-> "program", exit |-> NoExit, heap |-> <<>>, result |-> NoResult]
       \/ /\ prog = 1
          /\ \/ \E fe \in ReturnExits :
                   sync = [mode |-> "exit", exit |-> fe, heap |-> SampleHeap, result |-> NoResult]
             \/ \E fe \in ExternalExits :
                   sync = [mode |-> "exit", exit |-> fe, heap |-> SampleHeap, result |-> NoResult]
             \/ \E fe \in OsExits :
                   sync = [mode |-> "exit", exit |-> fe, heap |-> SampleHeap, result |-> NoResult]
             \/ \E fe \in FutureExits :
                   sync = [mode |-> "exit", exit |-> fe, heap |-> SampleHeap, result |-> NoResult]
             \/ \E fe \in ErrExits :
                   sync = [mode |-> "exit", exit |-> fe, heap |-> SampleHeap, result |-> NoResult]

\* MontyRun::run on the compiled program
RunSync ==
    /\ sync.mode = "program"
    /\ sync' = Executor_run(Executor(prog), <<>>)
    /\ UNCHANGED <<prog, progress, hist, repl, replOut>>

\* frame_exit_to_object on a frame exit of any variant
ConvertFrameExit ==
    /\ sync.mode = "exit"
    /\ sync.result = NoResult
    /\ sync' = [sync EXCEPT !.result = frame_exit_to_object(sync.exit, sync.heap, Executor(prog).interns)]
    /\ UNCHANGED <<prog, progress, hist, repl, replOut>>

(***************************************************************************)
(* The REPL session: MontyRun::into_repl, MontyRepl::feed / start and the  *)
(* REPL snapshots.                                                         *)
(***************************************************************************)
NoRepl == [mode |-> "none"]

\* mutant: the snippet is compiled like a new program, without the session's tables
Executor_new_repl_snippet_Fresh(code, external_functions, existing_name_map, existing_interns) ==
    Executor_new(code, <<>>, external_functions)

\* Executor::new_repl_snippet
Executor_new_repl_snippet(code, external_functions, existing_name_map, existing_interns) ==
    LET seeded_interner == existing_interns.strings
        prepared == prepare_with_existing_names(parse(code), seeded_interner, existing_name_map)
        existing_functions == existing_interns.functions
    IN [namespace_size |-> prepared.namespace_size,
        name_map |-> prepared.name_map,
        module_code |-> compile_module(prepared.nodes, prepared.name_map, external_functions),
        interns |-> Interns_new(prepared.interner, existing_functions, external_functions),
        external_function_ids |-> [i \in 1..Len(external_functions) |-> i - 1],
        code |-> code,
        heap_capacity |-> prepared.namespace_size]

\* MontyRun::into_repl: run the program once, keep heap and globals as the session
MontyRun_into_repl(executor, external_function_names, inputs) ==
    LET prep   == prepare_namespaces(executor, inputs)
        vm     == VM_run_module(executor.module_code, VM_new(<<>>, prep.ns))
        output == frame_exit_to_object(vm.exit, vm.heap, executor.interns)
    IN IF ~prep.ok THEN [ok |-> FALSE, exc |-> prep.exc]
       ELSE IF output.kind = "Err" THEN [ok |-> FALSE, exc |-> output.exc]
       ELSE [ok |-> TRUE,
             repl |-> [external_function_names |-> external_function_names,
                       global_name_map |-> executor.name_map,
                       interns |-> executor.interns,
                       heap |-> vm.heap,
                       namespaces |-> vm.ns],
             output |-> output.value]

\* mutant: the global array is grown to one slot less than the snippet needs
ensure_global_namespace_size_OneShort(self, namespace_size) ==
    IF Len(self.namespaces) < namespace_size - 1
    THEN [self EXCEPT !.namespaces =
             @ \o [i \in 1..(namespace_size - 1 - Len(self.namespaces)) |-> Undefined]]
    ELSE self

\* mutant: the global array is resized to namespace_size whatever its length
ensure_global_namespace_size_Resizes(self, namespace_size) ==
    [self EXCEPT !.namespaces =
        [i \in 1..namespace_size |-> IF i <= Len(@) THEN @[i] ELSE Undefined]]

\* MontyRepl::ensure_global_namespace_size
ensure_global_namespace_size(self, namespace_size) ==
    IF Len(self.namespaces) < namespace_size
    THEN [self EXCEPT !.namespaces =
             @ \o [i \in 1..(namespace_size - Len(self.namespaces)) |-> Undefined]]
    ELSE self

\* snippets Executor::new_repl_snippet makes no executor of, one for each of its stages
InvalidSnippets == <<"q = = 1", "nonlocal q", "q = 1; break">>

\* the error of the first `?` of Executor::new_repl_snippet that returns, or NoExc
new_repl_snippet_error(code) ==
    CASE code = "q = = 1" -> Exc("SyntaxError", "parse")
      [] code = "nonlocal q" -> Exc("SyntaxError", "prepare")
      [] code = "q = 1; break" -> Exc("SyntaxError", "compile")
      [] OTHER -> NoExc

\* mutant: the global array gets a slot for the snippet before the snippet is compiled
MontyRepl_feed_GrowsEarly(self, code) ==
    LET executor == Executor_new_repl_snippet(code, self.external_function_names,
                                              self.global_name_map, self.interns)
        this == ensure_global_namespace_size(self, executor.namespace_size)
        vm   == VM_run_module(executor.module_code, VM_new(this.heap, this.namespaces))
    IN IF code = ""
       THEN [repl |-> self, result |-> [kind |-> "Value", value |-> ObjNone], compiled |-> FALSE]
       ELSE IF new_repl_snippet_error(code) # NoExc
       THEN [repl |-> ensure_global_namespace_size(self, Len(self.namespaces) + 1),
             result |-> [kind |-> "Err", exc |-> new_repl_snippet_error(code)],
             compiled |-> FALSE]
       ELSE [repl |-> [this EXCEPT !.heap = vm.heap, !.namespaces = vm.ns,
                                   !.global_name_map = executor.name_map,
                                   !.interns = executor.interns],
             result |-> frame_exit_to_object(vm.exit, vm.heap, executor.interns),
             compiled |-> TRUE]

\* mutant: name map and interns are committed only when the snippet did not raise
MontyRepl_feed_CommitOnSuccess(self, code) ==
    LET executor == Executor_new_repl_snippet(code, self.external_function_names,
                                              self.global_name_map, self.interns)
        this == ensure_global_namespace_size(self, executor.namespace_size)
        vm   == VM_run_module(executor.module_code, VM_new(this.heap, this.namespaces))
    IN IF code = ""
       THEN [repl |-> self, result |-> [kind |-> "Value", value |-> ObjNone], compiled |-> FALSE]
       ELSE [repl |-> IF vm.exit.k = "Err"
                      THEN [this EXCEPT !.heap = vm.heap, !.namespaces = vm.ns]
                      ELSE [this EXCEPT !.heap = vm.heap, !.namespaces = vm.ns,
                                        !.global_name_map = executor.name_map,
                                        !.interns = executor.interns],
             result |-> frame_exit_to_object(vm.exit, vm.heap, executor.interns),
             compiled |-> TRUE]

\* mutant: no early return for empty code, the snippet is compiled and run like any other
MontyRepl_feed_NoEarlyReturn(self, code) ==
    LET executor == Executor_new_repl_snippet(code, self.external_function_names,
                                              self.global_name_map, self.interns)
        this == ensure_global_namespace_size(self, executor.namespace_size)
        vm   == VM_run_module(executor.module_code, VM_new(this.heap, this.namespaces))
    IN [repl |-> [this EXCEPT !.heap = vm.heap, !.namespaces = vm.ns,
                              !.global_name_map = executor.name_map,
                              !.interns = executor.interns],
        result |-> frame_exit_to_object(vm.exit, vm.heap, executor.interns),
        compiled |-> TRUE]

\* mutant: the snippet's module is run a second time on the state the first run left
MontyRepl_feed_RunsTwice(self, code) ==
    LET executor == Executor_new_repl_snippet(code, self.external_function_names,
                                              self.global_name_map, self.interns)
        this  == ensure_global_namespace_size(self, executor.namespace_size)
        first == VM_run_module(executor.module_code, VM_new(this.heap, this.namespaces))
        vm    == VM_run_module(executor.module_code, VM_new(first.heap, first.ns))
    IN IF code = ""
       THEN [repl |-> self, result |-> [kind |-> "Value", value |-> ObjNone], compiled |-> FALSE]
       ELSE [repl |-> [this EXCEPT !.heap = vm.heap, !.namespaces = vm.ns,
                                   !.global_name_map = executor.name_map,
                                   !.interns = executor.interns],
             result |-> frame_exit_to_object(vm.exit, vm.heap, executor.interns),
             compiled |-> TRUE]

\* MontyRepl::feed
MontyRepl_feed(self, code) ==
    LET executor == Executor_new_repl_snippet(code, self.external_function_names,
                                              self.global_name_map, self.interns)
        this == ensure_global_namespace_size(self, executor.namespace_size)
        vm   == VM_run_module(executor.module_code, VM_new(this.heap, this.namespaces))
    IN IF code = ""
       THEN [repl |-> self, result |-> [kind |-> "Value", value |-> ObjNone], compiled |-> FALSE]
       ELSE IF new_repl_snippet_error(code) # NoExc
       THEN [repl |-> self, result |-> [kind |-> "Err", exc |-> new_repl_snippet_error(code)],
             compiled |-> FALSE]
       ELSE [repl |-> [this EXCEPT !.heap = vm.heap, !.namespaces = vm.ns,
                                   !.global_name_map = executor.name_map,
                                   !.interns = executor.interns],
             result |-> frame_exit_to_object(vm.exit, vm.heap, executor.interns),
             compiled |-> TRUE]

\* the new_repl_snapshot! macro of handle_repl_vm_result
new_repl_snapshot(repl_, executor, vm_state, call_id) ==
    [repl |-> repl_, executor |-> executor, vm_state |-> vm_state, pending_call_id |-> call_id]

handle_repl_vm_result(result, vm_state, executor, repl_) ==
    CASE result.k = "Return" ->
            [kind |-> "Complete",
             repl |-> [repl_ EXCEPT !.global_name_map = executor.name_map,
                                    !.interns = executor.interns],
             value |-> MontyObject_new(result.value, repl_.heap)]
      [] result.k = "ExternalCall" ->
            [kind |-> "FunctionCall",
             function_name |-> get_external_function_name(executor.interns, result.ext_function_id),
             args |-> into_py_objects(result.args, repl_.heap), kwargs |-> <<>>,
             call_id |-> result.call_id,
             state |-> new_repl_snapshot(repl_, executor, vm_state, result.call_id)]
      [] result.k = "OsCall" ->
            [kind |-> "OsCall", function |-> result.function,
             args |-> into_py_objects(result.args, repl_.heap), kwargs |-> <<>>,
             call_id |-> result.call_id,
             state |-> new_repl_snapshot(repl_, executor, vm_state, result.call_id)]
      [] result.k = "ResolveFutures" ->
            [kind |-> "ResolveFutures",
             state |-> [repl |-> repl_, executor |-> executor, vm_state |-> vm_state,
                        pending_call_ids |-> result.ids]]
      [] result.k = "Err" -> Err(result.exc, FALSE, <<>>)

\* the session with the heap and globals the VM leaves behind
HandleRepl(c, executor, repl_) ==
    handle_repl_vm_result(c.exit, check_snapshot(c), executor,
                          [repl_ EXCEPT !.heap = c.heap, !.namespaces = c.ns])

\* MontyRepl::start
MontyRepl_start(self, code) ==
    LET executor == Executor_new_repl_snippet(code, self.external_function_names,
                                              self.global_name_map, self.interns)
        this == ensure_global_namespace_size(self, executor.namespace_size)
        vm   == VM_run_module(executor.module_code, VM_new(this.heap, this.namespaces))
    IN IF code = "" THEN [kind |-> "Complete", repl |-> self, value |-> ObjNone]
       ELSE HandleRepl(vm, executor, this)

\* ReplSnapshot::run
ReplSnapshot_run(self, ext_result) ==
    LET code == self.executor.module_code
        vm   == VM_restore(self.vm_state, self.repl.heap, self.repl.namespaces)
        vm_result ==
            CASE ext_result.r = "Return" -> VM_resume(code, vm, ext_result.obj)
              [] ext_result.r = "Error" -> VM_resume_with_exception(code, vm, ext_result.exc)
              [] ext_result.r = "Future" ->
                    VM_run(code, Push(add_pending_call(vm, self.pending_call_id),
                                      ExternalFuture(self.pending_call_id)))
    IN HandleRepl(vm_result, self.executor, self.repl)

\* ReplSnapshot::run_pending
ReplSnapshot_run_pending(self) == ReplSnapshot_run(self, Future)

\* ReplFutureSnapshot::resume
ReplFutureSnapshot_resume(self, results) ==
    LET code    == self.executor.module_code
        invalid == invalid_call_id(results, self.pending_call_ids)
        vm      == VM_restore(self.vm_state, self.repl.heap, self.repl.namespaces)
        vm1     == ApplyResults(vm, results)
        vm2     == prepare_main_task_after_resolve(vm1)
    IN IF invalid # -1
       THEN Err(Exc("RuntimeError", <<"unknown call_id", invalid>>), TRUE, vm.calls)
       ELSE IF invalid_return(results) # 0
       THEN InvalidReturnType(vm, results)
       ELSE IF take_failed_task_error(vm1) # NoExc
       THEN Err(take_failed_task_error(vm1), TRUE, vm1.calls)
       ELSE IF ~main_task_ready(vm1) /\ ~load_ready_task_if_needed(vm2)
               /\ get_pending_call_ids(vm2) # <<>>
       THEN [kind |-> "ResolveFutures",
             state |-> [repl |-> [self.repl EXCEPT !.heap = vm2.heap, !.namespaces = vm2.ns],
                        executor |-> self.executor, vm_state |-> VM_snapshot(vm2),
                        pending_call_ids |-> get_pending_call_ids(vm2)]]
       ELSE HandleRepl(VM_run(code, vm2), self.executor, self.repl)

(***************************************************************************)
(* Reference semantics of a snippet: statements executed in order over an  *)
(* environment of names, stopping at the first exception.                  *)
(***************************************************************************)
Names == {"a", "b", "c", "x", "y"}
NoEnv == [nm \in Names |-> Undefined]

RECURSIVE EvalExpr(_, _)
EvalExpr(e, env) ==
    CASE e.e = "const" -> [ok |-> TRUE, v |-> IntV(e.a), exc |-> ""]
      [] e.e = "name" ->
            IF env[e.a] = Undefined THEN [ok |-> FALSE, v |-> NoneV, exc |-> "NameError"]
            ELSE [ok |-> TRUE, v |-> env[e.a], exc |-> ""]
      [] e.e = "add" ->
            LET l == EvalExpr(e.args[1], env)
                r == EvalExpr(e.args[2], env)
            IN IF ~l.ok THEN l
               ELSE IF ~r.ok THEN r
               ELSE IF l.v.t = "Int" /\ r.v.t = "Int"
               THEN [ok |-> TRUE, v |-> IntV(l.v.v + r.v.v), exc |-> ""]
               ELSE [ok |-> FALSE, v |-> NoneV, exc |-> "TypeError"]
      [] OTHER -> [ok |-> FALSE, v |-> NoneV, exc |-> "NotImplementedError"]

RECURSIVE ExecStmts(_, _)
ExecStmts(stmts, env) ==
    IF stmts = <<>> THEN [env |-> env, ok |-> TRUE, v |-> NoneV, exc |-> ""]
    ELSE LET st == Head(stmts)
             r  == EvalExpr(st.v, env)
         IN CASE st.s = "raise" -> [env |-> env, ok |-> FALSE, v |-> NoneV, exc |-> st.x]
              [] st.s = "assign" ->
                    IF r.ok THEN ExecStmts(Tail(stmts), [env EXCEPT ![st.x] = r.v])
                    ELSE [env |-> env, ok |-> FALSE, v |-> NoneV, exc |-> r.exc]
              [] st.s = "expr" ->
                    IF ~r.ok THEN [env |-> env, ok |-> FALSE, v |-> NoneV, exc |-> r.exc]
                    ELSE IF Tail(stmts) = <<>> THEN [env |-> env, ok |-> TRUE, v |-> r.v, exc |-> ""]
                    ELSE ExecStmts(Tail(stmts), env)

\* the names a snippet gave a new value before it raised
PartialNames(code, env) ==
    LET r == ExecStmts(parse(code), env)
    IN IF r.ok THEN {} ELSE {nm \in Names : r.env[nm] # env[nm]}

(***************************************************************************)
(* The session as the host drives it.                                      *)
(***************************************************************************)
ReplIdle   == [kind |-> "Repl", p |-> [kind |-> "Idle"]]
NoReplOut  == [mode |-> "off"]
InRepl(k)  == progress.kind = "Repl" /\ progress.p.kind \in k

\* what the host holds after a REPL step: the session again once the snippet completed,
\* a snapshot that owns the session while it is suspended, only the exception on an error
Settle(p, out) ==
    /\ progress' = IF p.kind = "Complete" THEN ReplIdle
                   ELSE IF p.kind = "Err" THEN p
                   ELSE [kind |-> "Repl", p |-> p]
    /\ repl' = IF p.kind = "Complete" THEN p.repl ELSE NoRepl
    /\ replOut' = IF p.kind = "Complete"
                  THEN [out EXCEPT !.result = [kind |-> "Value", value |-> p.value],
                                   !.expect = [ok |-> TRUE, v |-> p.value, exc |-> ""]]
                  ELSE out

\* MontyRun::into_repl
IntoRepl ==
    /\ progress.kind = "New"
    /\ LET r == MontyRun_into_repl(Executor(prog), ExtFunctionNames, <<>>)
       IN /\ progress' = IF r.ok THEN ReplIdle ELSE Err(r.exc, TRUE, <<>>)
          /\ repl' = IF r.ok THEN r.repl ELSE NoRepl
          /\ replOut' = IF r.ok
                        THEN [mode |-> "on", n |-> 0, code |-> Programs[prog],
                              result |-> [kind |-> "Value", value |-> r.output],
                              expect |-> [ok |-> TRUE, v |-> r.output, exc |-> ""],
                              env |-> NoEnv, partial |-> {},
                              log |-> <<>>, pure |-> TRUE, clean |-> TRUE, compiled |-> TRUE]
                        ELSE NoReplOut
    /\ hist' = [hist EXCEPT !.last = [op |-> "into_repl"]]
    /\ UNCHANGED <<prog, sync>>

\* MontyRepl::feed with one of the snippets
Feed ==
    /\ InRepl({"Idle"})
    /\ replOut.n < MaxFeeds
    /\ \E i \in DOMAIN Snippets :
         LET code == Snippets[i]
             out  == MontyRepl_feed(repl, code)
             ref  == ExecStmts(parse(code), replOut.env)
         IN /\ repl' = out.repl
            /\ replOut' = [mode |-> "on", n |-> replOut.n + 1, code |-> code,
                           result |-> out.result,
                           expect |-> [ok |-> ref.ok,
                                       v |-> MontyObject_new(ref.v, <<>>), exc |-> ref.exc],
                           env |-> ref.env,
                           partial |-> replOut.partial \cup PartialNames(code, replOut.env),
                           log |-> IF replOut.pure THEN Append(replOut.log, code) ELSE <<>>,
                           pure |-> replOut.pure,
                           clean |-> replOut.clean /\ replOut.result.kind # "Err",
                           compiled |-> out.compiled]
    /\ hist' = [hist EXCEPT !.last = [op |-> "feed"]]
    /\ UNCHANGED <<prog, progress, sync>>

\* MontyRepl::start with a snippet that calls out
ReplStart ==
    /\ InRepl({"Idle"})
    /\ replOut.n < MaxFeeds
    /\ \E i \in DOMAIN StartSnippets :
         /\ Settle(MontyRepl_start(repl, StartSnippets[i]),
                   [replOut EXCEPT !.n = @ + 1, !.code = StartSnippets[i],
                                   !.log = <<>>, !.pure = FALSE])
         /\ hist' = [hist EXCEPT !.last = [op |-> "repl_start", code |-> StartSnippets[i]]]
    /\ UNCHANGED <<prog, sync>>

\* ReplSnapshot::run with a value or an exception
ReplRun ==
    /\ InRepl({"FunctionCall", "OsCall"})
    /\ \E res \in {Return(ObjInt(42)), Error(HostExc)} :
         /\ Settle(ReplSnapshot_run(progress.p.state, res), replOut)
         /\ hist' = [hist EXCEPT !.last = [op |-> "repl_run", result |-> res]]
    /\ UNCHANGED <<prog, sync>>

\* ReplSnapshot::run_pending
ReplRunPending ==
    /\ InRepl({"FunctionCall", "OsCall"})
    /\ Settle(ReplSnapshot_run_pending(progress.p.state), replOut)
    /\ hist' = [hist EXCEPT !.last = [op |-> "repl_run_pending"]]
    /\ UNCHANGED <<prog, sync>>

\* ReplFutureSnapshot::resume
ReplResume ==
    /\ InRepl({"ResolveFutures"})
    /\ \E results \in ResultLists(progress.p.state) :
         /\ Settle(ReplFutureSnapshot_resume(progress.p.state, results), replOut)
         /\ hist' = [hist EXCEPT !.last = [op |-> "repl_resume", results |-> results,
                                           pending |-> progress.p.state.pending_call_ids,
                                           calls |-> progress.p.state.vm_state.calls,
                                           blocked |-> progress.p.state.vm_state.blocked.ids]]
    /\ UNCHANGED <<prog, sync>>

(***************************************************************************)
(* A session fed snippets that do not compile among snippets that do.      *)
(* sync.failed counts the feeds that failed before execution.              *)
(***************************************************************************)
InitFeed ==
    /\ InitRun
    /\ sync = [mode |-> "feed", failed |-> 0]
    /\ repl = NoRepl
    /\ replOut = NoReplOut

\* MontyRepl::feed with a snippet that has a parse, prepare or compile error
FeedInvalid ==
    /\ InRepl({"Idle"})
    /\ replOut.n < MaxFeeds
    /\ \E i \in DOMAIN InvalidSnippets :
         LET out == MontyRepl_feed(repl, InvalidSnippets[i])
         IN /\ repl' = out.repl
            /\ replOut' = [replOut EXCEPT !.n = @ + 1, !.code = InvalidSnippets[i],
                                          !.result = out.result,
                                          !.expect = [ok |-> FALSE, v |-> ObjNone, exc |-> "SyntaxError"],
                                          !.clean = replOut.clean /\ replOut.result.kind # "Err",
                                          !.compiled = out.compiled]
    /\ sync' = [sync EXCEPT !.failed = @ + 1]
    /\ hist' = [hist EXCEPT !.last = [op |-> "feed_invalid"]]
    /\ UNCHANGED <<prog, progress>>

NextFeed ==
    \/ IntoRepl
    \/ Feed
    \/ FeedInvalid

SpecFeed == InitFeed /\ [][NextFeed]_vars

Init ==
    /\ repl = NoRepl
    /\ replOut = NoReplOut
    /\ \/ InitRun /\ sync = NoSync
       \/ InitSync

Next ==
    \/ Start
    \/ SnapshotRun
    \/ SnapshotRunPending
    \/ Resume
    \/ RunSync
    \/ ConvertFrameExit
    \/ IntoRepl
    \/ Feed
    \/ ReplStart
    \/ ReplRun
    \/ ReplRunPending
    \/ ReplResume

Spec == Init /\ [][Next]_vars

(***************************************************************************)
(* A run whose host may pass any results list: a call id named more than   *)
(* once, a value the VM cannot take.                                       *)
(* sync.applied is what the loop of FutureSnapshot::resume handed to the   *)
(* scheduler in the last resume: the call id of every resolve_future and   *)
(* fail_future, in order.                                                  *)
(***************************************************************************)
RECURSIVE SchedulerCalls(_)
SchedulerCalls(results) ==
    IF results = <<>> THEN <<>>
    ELSE IF Head(results)[2].r = "Future" THEN SchedulerCalls(Tail(results))
    ELSE <<Head(results)[1]>> \o SchedulerCalls(Tail(results))

\* every results list of call ids and results: a call id named twice and a value that is
\* no valid return type included
\* an output-only object, its text given by number
HostRepr   == [o |-> "Repr", v |-> 0]
AnyResults == ResumeResults \cup {Return(HostRepr)}
RECURSIVE AnyResultListsN(_, _)
AnyResultListsN(fs, n) ==
    IF n = 0 THEN {<<>>}
    ELSE LET shorter == AnyResultListsN(fs, n - 1)
         IN shorter \cup
            {Append(l, e) : l \in {x \in shorter : Len(x) = n - 1},
                            e \in CandidateIds(fs) \X AnyResults}
AnyResultLists(fs) == AnyResultListsN(fs, MaxResults)

InitResume ==
    /\ InitRun
    /\ sync = [mode |-> "resume_any", applied |-> <<>>]
    /\ repl = NoRepl
    /\ replOut = NoReplOut

\* FutureSnapshot::resume with any results list
ResumeAny ==
    /\ progress.kind = "ResolveFutures"
    /\ \E results \in AnyResultLists(progress.state) :
         /\ progress' = FutureSnapshot_resume(progress.state, results)
         /\ sync' = [sync EXCEPT !.applied =
                        IF invalid_call_id(results, progress.state.pending_call_ids) # -1
                        THEN <<>> ELSE SchedulerCalls(results)]
         /\ hist' = [Issue(hist, progress') EXCEPT
                        !.resolved = IF progress'.kind = "Err" /\ progress'.exc.type = "RuntimeError"
                                     THEN @ ELSE @ \cup ResolvedBy(results),
                        !.last = [op |-> "resume", results |-> results,
                                  pending |-> progress.state.pending_call_ids,
                                  calls |-> progress.state.vm_state.calls,
                                  blocked |-> progress.state.vm_state.blocked.ids],
                        !.twin = progress']
    /\ UNCHANGED <<prog, repl, replOut>>

NextResume ==
    \/ Start
    \/ SnapshotRun
    \/ SnapshotRunPending
    \/ ResumeAny

SpecResume == InitResume /\ [][NextResume]_vars


\* the run with the host free to serialize every suspended state
NextDump == Next \/ DumpLoad
SpecDump == Init /\ [][NextDump]_vars

\* the run with the host free to load blobs it did not dump
NextLoad == Next \/ LoadForeign
SpecLoad == Init /\ [][NextLoad]_vars

(***************************************************************************)
(* MontyRun::new with input names and MontyRun::start with inputs.         *)
(***************************************************************************)
InputPrograms  == {"1 + 1", "x = 5", "p + 1"}
InputNameLists == {<<>>, <<"p">>, <<"p", "q">>}
\* the objects the host passes as inputs; MontyObject::Repr is not a valid input
InputObjects   == <<ObjInt(5), ObjNone, ObjRepr("host")>>
NoPrep         == [ok |-> FALSE, exc |-> NoExc]

\* MontyRun::new(code, input_names, external_functions) of the run under test
InputExecutor == Executor_new(sync.code, sync.input_names, ExtFunctionNames)

InitInputs ==
    /\ prog = 1
    /\ progress = [kind |-> "New"]
    /\ hist = NoHist
    /\ repl = NoRepl
    /\ replOut = NoReplOut
    /\ \E code \in InputPrograms, names \in InputNameLists, n \in 0..MaxInputs :
         \E idx \in [1..n -> DOMAIN InputObjects] :
            sync = [mode |-> "inputs", stage |-> "new", code |-> code, input_names |-> names,
                    inputs |-> [i \in 1..n |-> InputObjects[idx[i]]], prep |-> NoPrep]

\* Executor::prepare_namespaces on the inputs
PrepareNamespaces ==
    /\ sync.mode = "inputs"
    /\ sync.stage = "new"
    /\ sync' = [sync EXCEPT !.stage = "prepared",
                            !.prep = prepare_namespaces(InputExecutor, sync.inputs)]
    /\ UNCHANGED <<prog, progress, hist, repl, replOut>>

\* MontyRun::start with the inputs
StartWithInputs ==
    /\ sync.mode = "inputs"
    /\ sync.stage = "new"
    /\ progress' = MontyRun_start(InputExecutor, sync.inputs)
    /\ sync' = [sync EXCEPT !.stage = "started"]
    /\ UNCHANGED <<prog, hist, repl, replOut>>

NextInputs == PrepareNamespaces \/ StartWithInputs
SpecInputs == InitInputs /\ [][NextInputs]_vars

(***************************************************************************)
(* The tree-walking interpreter of src/src: Object arithmetic and Frame.   *)
(***************************************************************************)
\* an i64 is four 16-bit limbs, least significant first, in two's complement
LimbBase == 65536
I64(l0, l1, l2, l3) == <<l0, l1, l2, l3>>
One      == I64(1, 0, 0, 0)
MaxI64   == I64(LimbBase - 1, LimbBase - 1, LimbBase - 1, (LimbBase \div 2) - 1)
MinI64   == I64(0, 0, 0, LimbBase \div 2)

RECURSIVE AddLimbs(_, _, _)
AddLimbs(a, b, carry) ==
    IF a = <<>> THEN <<>>
    ELSE LET sum == Head(a) + Head(b) + carry
         IN <<sum % LimbBase>> \o AddLimbs(Tail(a), Tail(b), sum \div LimbBase)
NotLimbs(a)    == [i \in DOMAIN a |-> LimbBase - 1 - a[i]]
IsNegative(a)  == a[Len(a)] >= LimbBase \div 2
wrapping_add(a, b) == AddLimbs(a, b, 0)
wrapping_sub(a, b) == AddLimbs(a, NotLimbs(b), 1)
add_overflows(a, b) ==
    IsNegative(a) = IsNegative(b) /\ IsNegative(wrapping_add(a, b)) # IsNegative(a)
sub_overflows(a, b) ==
    IsNegative(a) # IsNegative(b) /\ IsNegative(wrapping_sub(a, b)) # IsNegative(a)

\* how the crate was built: with overflow checks (debug profile) or without (release)
Builds == {"debug", "release"}
Done(v)  == [k |-> "ok", v |-> v]
Panicked == [k |-> "panic", v |-> <<>>]
\* `v1 + v2` and `v1 - v2` on i64: on overflow a panic with overflow checks, the wrapped
\* value without
I64Add(v1, v2, build) ==
    IF add_overflows(v1, v2) /\ build = "debug" THEN Panicked ELSE Done(wrapping_add(v1, v2))
I64Sub(v1, v2, build) ==
    IF sub_overflows(v1, v2) /\ build = "debug" THEN Panicked ELSE Done(wrapping_sub(v1, v2))

\* enum Object (the variants used)
Object_Undefined == [t |-> "Undefined", v |-> <<>>]
Object_None      == [t |-> "None", v |-> <<>>]
Object_Int(v)    == [t |-> "Int", v |-> v]
Object_List(v)   == [t |-> "List", v |-> v]
\* a Str holds the sequence of its characters
Object_Str(v)    == [t |-> "Str", v |-> v]
Object_Range(v)  == [t |-> "Range", v |-> v]

\* Object::add: Some(object), None, or the panic of the addition
Object_add(self, other, build) ==
    IF self.t = "Int" /\ other.t = "Int"
    THEN LET r == I64Add(self.v, other.v, build)
         IN IF r.k = "panic" THEN [k |-> "panic", v |-> Object_None]
            ELSE [k |-> "Some", v |-> Object_Int(r.v)]
    ELSE IF self.t = "Str" /\ other.t = "Str"
    THEN [k |-> "Some", v |-> Object_Str(self.v \o other.v)]
    ELSE IF self.t = "List" /\ other.t = "List"
    THEN [k |-> "Some", v |-> Object_List(self.v \o other.v)]
    ELSE [k |-> "None", v |-> Object_None]

\* mutant: the operand is put in front of the target's characters or elements
Object_add_mut_Prepends(self, other, build) ==
    IF self.t = "Int" /\ other.t = "Int"
    THEN LET r == I64Add(self.v, other.v, build)
         IN IF r.k = "panic" THEN [k |-> "panic", self |-> self]
            ELSE [k |-> "ok", self |-> Object_Int(r.v)]
    ELSE IF self.t = other.t /\ self.t \in {"Str", "List"}
    THEN [k |-> "ok", self |-> [self EXCEPT !.v = other.v \o self.v]]
    ELSE [k |-> "err", self |-> self]

\* Object::add_mut: whether it applied, and self afterwards
Object_add_mut(self, other, build) ==
    IF self.t = "Int" /\ other.t = "Int"
    THEN LET r == I64Add(self.v, other.v, build)
         IN IF r.k = "panic" THEN [k |-> "panic", self |-> self]
            ELSE [k |-> "ok", self |-> Object_Int(r.v)]
    ELSE IF self.t = "Str" /\ other.t = "Str"
    THEN [k |-> "ok", self |-> Object_Str(self.v \o other.v)]
    ELSE IF self.t = "List" /\ other.t = "List"
    THEN [k |-> "ok", self |-> Object_List(self.v \o other.v)]
    ELSE [k |-> "err", self |-> self]

\* Object::sub
Object_sub(self, other, build) ==
    IF self.t = "Int" /\ other.t = "Int"
    THEN LET r == I64Sub(self.v, other.v, build)
         IN IF r.k = "panic" THEN [k |-> "panic", v |-> Object_None]
            ELSE [k |-> "Some", v |-> Object_Int(r.v)]
    ELSE [k |-> "None", v |-> Object_None]

\* `v1 % v2` on i64: the remainder has the sign of v1; a zero divisor and MIN % -1 panic
\* in every build
Zero     == I64(0, 0, 0, 0)
MinusOne == I64(LimbBase - 1, LimbBase - 1, LimbBase - 1, LimbBase - 1)
Magnitude(a) == IF IsNegative(a) THEN wrapping_sub(Zero, a) ELSE a
LessLimbs(a, b) ==
    \E i \in DOMAIN a : a[i] < b[i] /\ \A j \in DOMAIN a : j > i => a[j] = b[j]
SmallDivisor(d) == d[2] = 0 /\ d[3] = 0 /\ d[4] = 0 /\ d[1] <= LimbBase \div 2
RECURSIVE RemMagnitude(_, _)
RemMagnitude(n, d) ==
    IF SmallDivisor(d)
    THEN LET r3 == n[4] % d[1]
             r2 == (r3 * LimbBase + n[3]) % d[1]
             r1 == (r2 * LimbBase + n[2]) % d[1]
             r0 == (r1 * LimbBase + n[1]) % d[1]
         IN I64(r0, 0, 0, 0)
    ELSE IF LessLimbs(n, d) THEN n
    ELSE RemMagnitude(wrapping_sub(n, d), d)
I64Rem(v1, v2) ==
    IF v2 = Zero THEN Panicked
    ELSE IF v1 = MinI64 /\ v2 = MinusOne THEN Panicked
    ELSE LET r == RemMagnitude(Magnitude(v1), Magnitude(v2))
         IN Done(IF IsNegative(v1) THEN wrapping_sub(Zero, r) ELSE r)

Object_True  == [t |-> "True", v |-> <<>>]
Object_False == [t |-> "False", v |-> <<>>]

\* the equality `#[derive(PartialEq)]` gives Object: same variant, same payload
Object_py_eq_Derived(self, other) == self = other

\* Object::py_eq
Object_py_eq(self, other) ==
    CASE self.t = "Undefined" -> FALSE
      [] other.t = "Undefined" -> FALSE
      [] self.t = "Int" /\ other.t = "Int" -> self.v = other.v
      [] self.t = "Str" /\ other.t = "Str" -> self.v = other.v
      [] self.t = "True" /\ other.t = "True" -> TRUE
      [] self.t = "True" /\ other.t = "Int" -> One = other.v
      [] self.t = "Int" /\ other.t = "True" -> self.v = One
      [] self.t = "False" /\ other.t = "False" -> TRUE
      [] self.t = "False" /\ other.t = "Int" -> Zero = other.v
      [] self.t = "Int" /\ other.t = "False" -> self.v = Zero
      [] self.t = "None" /\ other.t = "None" -> TRUE
      [] OTHER -> FALSE

\* Object::modulus: Some(object), None, or the panic of the remainder
Object_modulus(self, other, build) ==
    IF self.t = "Int" /\ other.t = "Int"
    THEN LET r == I64Rem(self.v, other.v)
         IN IF r.k = "panic" THEN [k |-> "panic", v |-> Object_None]
            ELSE [k |-> "Some", v |-> Object_Int(r.v)]
    ELSE [k |-> "None", v |-> Object_None]

\* mutant: the fused comparison takes the remainder without its sign
Object_modulus_eq_Unsigned(self, other, right_value) ==
    IF self.t = "Int" /\ other.t = "Int"
    THEN LET r == I64Rem(self.v, other.v)
         IN IF r.k = "panic" THEN [k |-> "panic", b |-> FALSE]
            ELSE [k |-> "Some", b |-> (Magnitude(r.v) = right_value)]
    ELSE [k |-> "None", b |-> FALSE]

\* Object::modulus_eq: Some(bool), None, or the panic of the remainder
Object_modulus_eq(self, other, right_value) ==
    IF self.t = "Int" /\ other.t = "Int"
    THEN LET r == I64Rem(self.v, other.v)
         IN IF r.k = "panic" THEN [k |-> "panic", b |-> FALSE]
            ELSE [k |-> "Some", b |-> (r.v = right_value)]
    ELSE [k |-> "None", b |-> FALSE]

\* Object::len
Object_len(self) ==
    IF self.t \in {"Str", "List"} THEN [k |-> "Some", n |-> Len(self.v)]
    ELSE [k |-> "None", n |-> 0]

\* RunResult: Ok(object), Err(message), or the interpreter aborted by a panic
RunOk(v)    == [k |-> "Ok", v |-> v, msg |-> ""]
RunErr(msg) == [k |-> "Err", v |-> Object_None, msg |-> msg]
RunPanic    == [k |-> "Panic", v |-> Object_None, msg |-> "attempt to add with overflow"]

\* Expr
Expr_Constant(object) == [e |-> "Constant", object |-> object, id |-> 0]
Expr_Name(id)         == [e |-> "Name", object |-> Object_Undefined, id |-> id]
Expr_Op(left, op, right) == [e |-> "Op", left |-> left, op |-> op, right |-> right]
Expr_Call(func, args)    == [e |-> "Call", func |-> func, args |-> args]
Expr_List(elements)      == [e |-> "List", elements |-> elements]
Expr_CmpOp(left, op, right) == [e |-> "CmpOp", left |-> left, op |-> op, right |-> right]
Operators == {"Add", "Sub", "Mult"}

\* the outcome of a comparison of two executed operands: Ok with the outcome in b, or the
\* first failure
Compared(left_object, right_object, op) ==
    IF left_object.k # "Ok" THEN [left_object EXCEPT !.v = Object_None] @@ [b |-> FALSE]
    ELSE IF right_object.k # "Ok" THEN [right_object EXCEPT !.v = Object_None] @@ [b |-> FALSE]
    ELSE IF op \notin {"Eq", "NotEq"}
    THEN RunErr("CmpOperator not yet implemented") @@ [b |-> FALSE]
    ELSE RunOk(Object_None) @@
         [b |-> (op = "Eq") = Object_py_eq(left_object.v, right_object.v)]
\* bool.into(): Object::True or Object::False
BoolObject(r) ==
    IF r.k # "Ok" THEN [k |-> r.k, v |-> r.v, msg |-> r.msg]
    ELSE RunOk(IF r.b THEN Object_True ELSE Object_False)

RECURSIVE Frame_execute_expr(_, _, _)
RECURSIVE Frame_op(_, _, _, _, _)
RECURSIVE Frame_call_function(_, _, _, _)
RECURSIVE Frame_cmp_op(_, _, _, _, _)
\* the objects of a sequence of expressions executed in order, or the first failure
ExecuteAll(results) ==
    LET failed == {i \in DOMAIN results : results[i].k # "Ok"}
    IN IF failed = {} THEN RunOk(Object_List([i \in DOMAIN results |-> results[i].v]))
       ELSE results[CHOOSE i \in failed : \A j \in failed : i <= j]

\* Frame::call_function
Frame_call_function(self, builtin, args, build) ==
    LET objects == ExecuteAll([i \in DOMAIN args |-> Frame_execute_expr(self, args[i], build)])
        object  == Frame_execute_expr(self, args[1], build)
    IN CASE builtin = "Print" -> IF objects.k # "Ok" THEN objects ELSE RunOk(Object_None)
         [] builtin = "Range" ->
               IF Len(args) # 1 THEN RunErr("range() takes exactly one argument")
               ELSE IF object.k # "Ok" THEN object
               ELSE IF object.v.t = "Int" THEN RunOk(Object_Range(object.v.v))
               ELSE RunErr("range() argument must be an integer")
         [] builtin = "Len" ->
               IF Len(args) # 1 THEN RunErr("len() takes exactly exactly one argument")
               ELSE IF object.k # "Ok" THEN object
               ELSE IF Object_len(object.v).k = "Some"
               THEN RunOk(Object_Int(I64(Object_len(object.v).n, 0, 0, 0)))
               ELSE RunErr("Object has no len()")

\* Frame::op
Frame_op(self, left, op, right, build) ==
    LET left_object  == Frame_execute_expr(self, left, build)
        right_object == Frame_execute_expr(self, right, build)
        op_object    == CASE op = "Add" -> Object_add(left_object.v, right_object.v, build)
                          [] op = "Sub" -> Object_sub(left_object.v, right_object.v, build)
                          [] OTHER -> Object_modulus(left_object.v, right_object.v, build)
    IN IF left_object.k # "Ok" THEN left_object
       ELSE IF right_object.k # "Ok" THEN right_object
       ELSE IF op \notin {"Add", "Sub", "Mod"} THEN RunErr("Operator not yet implemented")
       ELSE IF op_object.k = "panic" THEN RunPanic
       ELSE IF op_object.k = "Some" THEN RunOk(op_object.v)
       ELSE RunErr("Cannot apply operator")

\* Frame::execute_expr
Frame_execute_expr(self, expr, build) ==
    CASE expr.e = "Constant" -> RunOk(expr.object)
      [] expr.e = "Name" ->
            IF expr.id < Len(self.namespace)
            THEN IF self.namespace[expr.id + 1].t = "Undefined"
                 THEN RunErr("name is not defined")
                 ELSE RunOk(self.namespace[expr.id + 1])
            ELSE RunErr("name is not defined")
      [] expr.e = "Call" -> Frame_call_function(self, expr.func, expr.args, build)
      [] expr.e = "Op" -> Frame_op(self, expr.left, expr.op, expr.right, build)
      [] expr.e = "CmpOp" ->
            BoolObject(Frame_cmp_op(self, expr.left, expr.op, expr.right, build))
      [] expr.e = "List" ->
            ExecuteAll([i \in DOMAIN expr.elements |-> Frame_execute_expr(self, expr.elements[i], build)])

\* Frame::cmp_op (Eq and NotEq)
Frame_cmp_op(self, left, op, right, build) ==
    Compared(Frame_execute_expr(self, left, build), Frame_execute_expr(self, right, build), op)

\* Object::bool
Object_bool(self) ==
    CASE self.t \in {"Undefined", "None", "False"} -> FALSE
      [] self.t = "True" -> TRUE
      [] self.t = "Int" -> self.v # Zero
      [] self.t \in {"Str", "List"} -> self.v # <<>>
      [] self.t = "Range" -> self.v # Zero
Truth(object) ==
    IF object.k # "Ok" THEN [object EXCEPT !.v = Object_None] @@ [b |-> FALSE]
    ELSE RunOk(Object_None) @@ [b |-> Object_bool(object.v)]

\* Frame::execute_expr_bool
Frame_execute_expr_bool(self, expr, build) ==
    IF expr.e = "CmpOp" THEN Frame_cmp_op(self, expr.left, expr.op, expr.right, build)
    ELSE Truth(Frame_execute_expr(self, expr, build))

\* Frame::assign
Frame_assign(self, target, object, build) ==
    LET value == Frame_execute_expr(self, object, build)
    IN IF value.k # "Ok" THEN [frame |-> self, result |-> value]
       ELSE [frame |-> [self EXCEPT !.namespace[target + 1] = value.v],
             result |-> RunOk(Object_None)]

\* Frame::op_assign
Frame_op_assign(self, target, op, object, build) ==
    LET right_object == Frame_execute_expr(self, object, build)
        ok == Object_add_mut(self.namespace[target + 1], right_object.v, build)
    IN IF right_object.k # "Ok" THEN [frame |-> self, result |-> right_object]
       ELSE IF target < Len(self.namespace)
       THEN IF op # "Add"
            THEN [frame |-> self, result |-> RunErr("Assign operator not yet implemented")]
            ELSE IF ok.k = "panic" THEN [frame |-> self, result |-> RunPanic]
            ELSE IF ok.k = "ok"
            THEN [frame |-> [self EXCEPT !.namespace[target + 1] = ok.self],
                  result |-> RunOk(Object_None)]
            ELSE [frame |-> self, result |-> RunErr("Cannot apply assign operator")]
       ELSE [frame |-> self, result |-> RunErr("name is not defined")]

\* Node
Node_Expr(expr) == [n |-> "Expr", expr |-> expr]
Node_Assign(target, object) == [n |-> "Assign", target |-> target, object |-> object]
Node_OpAssign(target, op, object) ==
    [n |-> "OpAssign", target |-> target, op |-> op, object |-> object]
Node_If(test, body, or_else) == [n |-> "If", test |-> test, body |-> body, or_else |-> or_else]

RECURSIVE Frame_execute(_, _, _)
Branch(self, r, body, or_else, build) ==
    IF r.k # "Ok" THEN [frame |-> self, result |-> [k |-> r.k, v |-> r.v, msg |-> r.msg]]
    ELSE Frame_execute(self, IF r.b THEN body ELSE or_else, build)
\* Frame::if_
Frame_if_(self, test, body, or_else, build) ==
    Branch(self, Frame_execute_expr_bool(self, test, build), body, or_else, build)

Discarded(self, r) == [frame |-> self, result |-> IF r.k = "Ok" THEN RunOk(Object_None) ELSE r]
\* Frame::execute_node (the nodes other than For)
Frame_execute_node(self, node, build) ==
    CASE node.n = "Expr" -> Discarded(self, Frame_execute_expr(self, node.expr, build))
      [] node.n = "Assign" -> Frame_assign(self, node.target, node.object, build)
      [] node.n = "OpAssign" -> Frame_op_assign(self, node.target, node.op, node.object, build)
      [] node.n = "If" -> Frame_if_(self, node.test, node.body, node.or_else, build)

Continued(out, nodes, build) ==
    IF out.result.k # "Ok" THEN out ELSE Frame_execute(out.frame, nodes, build)
\* Frame::execute: the nodes in order until one fails
Frame_execute(self, nodes, build) ==
    IF nodes = <<>> THEN [frame |-> self, result |-> RunOk(Object_None)]
    ELSE Continued(Frame_execute_node(self, Head(nodes), build), Tail(nodes), build)

\* the expressions of the programs run: constants, names (one id past the namespace),
\* and one operator applied to two of them
FrameSlots == 2
ConstantObjects == {Object_None, Object_Int(One), Object_Int(MaxI64), Object_Int(MinI64)}
Atoms == {Expr_Constant(c) : c \in ConstantObjects} \cup {Expr_Name(id) : id \in 0..FrameSlots}

\* Frame::new on the namespace prepare gives: every slot Undefined
InitFrame ==
    /\ prog = 1
    /\ progress = Idle
    /\ hist = NoHist
    /\ repl = NoRepl
    /\ replOut = NoReplOut
    /\ \E build \in Builds :
         sync = [mode |-> "frame", build |-> build, n |-> 0,
                 frame |-> [namespace |-> [i \in 1..FrameSlots |-> Object_Undefined]],
                 node |-> "none", target |-> 0, op |-> "Add", expr |-> Expr_Name(0),
                 result |-> RunOk(Object_None),
                 before |-> [i \in 1..FrameSlots |-> Object_Undefined]]

FrameRunning ==
    /\ sync.mode = "frame"
    /\ sync.n < MaxNodes
    /\ sync.result.k # "Panic"

\* Frame::execute_node on Node::Expr, the expression a name or constant
ExecuteAtom ==
    /\ FrameRunning
    /\ \E expr \in Atoms :
         sync' = [sync EXCEPT !.n = @ + 1, !.node = "expr", !.expr = expr,
                              !.result = Frame_execute_expr(sync.frame, expr, sync.build),
                              !.before = sync.frame.namespace]
    /\ UNCHANGED <<prog, progress, hist, repl, replOut>>

\* Frame::execute_node on Node::Expr, the expression an operator
ExecuteOp ==
    /\ FrameRunning
    /\ \E left \in Atoms, op \in Operators, right \in Atoms :
         sync' = [sync EXCEPT !.n = @ + 1, !.node = "expr", !.op = op,
                              !.expr = Expr_Op(left, op, right),
                              !.result = Frame_execute_expr(sync.frame, Expr_Op(left, op, right),
                                                            sync.build),
                              !.before = sync.frame.namespace]
    /\ UNCHANGED <<prog, progress, hist, repl, replOut>>

\* Frame::execute_node on Node::Assign
ExecuteAssign ==
    /\ FrameRunning
    /\ \E target \in 0..(FrameSlots - 1), object \in Atoms :
         LET out == Frame_assign(sync.frame, target, object, sync.build)
         IN sync' = [sync EXCEPT !.n = @ + 1, !.node = "assign", !.target = target,
                                 !.expr = object, !.frame = out.frame,
                                 !.result = out.result, !.before = sync.frame.namespace]
    /\ UNCHANGED <<prog, progress, hist, repl, replOut>>

\* Frame::execute_node on Node::OpAssign
ExecuteOpAssign ==
    /\ FrameRunning
    /\ \E target \in 0..FrameSlots, op \in {"Add", "Sub"}, object \in Atoms :
         LET out == Frame_op_assign(sync.frame, target, op, object, sync.build)
         IN sync' = [sync EXCEPT !.n = @ + 1, !.node = "op_assign", !.target = target,
                                 !.op = op, !.expr = object, !.frame = out.frame,
                                 !.result = out.result, !.before = sync.frame.namespace]
    /\ UNCHANGED <<prog, progress, hist, repl, replOut>>

NextFrame == ExecuteAtom \/ ExecuteOp \/ ExecuteAssign \/ ExecuteOpAssign
SpecFrame == InitFrame /\ [][NextFrame]_vars

(***************************************************************************)
(* Object's operations applied to operands drawn from a sample of objects. *)
(***************************************************************************)
ObjectSamples ==
    {Object_Undefined, Object_None, Object_True, Object_False, Object_Int(Zero), Object_Int(One),
     Object_Int(MinusOne), Object_Int(MaxI64), Object_Int(MinI64)}
NoCall == [k |-> "None", v |-> Object_None]
NoCallEq == [k |-> "None", b |-> FALSE]

InitObject ==
    /\ prog = 1
    /\ progress = Idle
    /\ hist = NoHist
    /\ repl = NoRepl
    /\ replOut = NoReplOut
    /\ \E build \in Builds, a \in ObjectSamples, b \in ObjectSamples, c \in ObjectSamples :
         sync = [mode |-> "object", build |-> build, op |-> "none", a |-> a, b |-> b, c |-> c,
                 right_value |-> Zero, eq |-> FALSE, eq_rev |-> FALSE,
                 left |-> RunOk(Object_None), right |-> RunOk(Object_None),
                 mod |-> NoCall, mod_eq |-> NoCallEq]

ObjectFresh == sync.mode = "object" /\ sync.op = "none"
EmptyFrame == [namespace |-> [i \in 1..FrameSlots |-> Object_Undefined]]

\* self.py_eq(other), in both argument orders
ApplyPyEq ==
    /\ ObjectFresh
    /\ sync' = [sync EXCEPT !.op = "py_eq", !.eq = Object_py_eq(sync.a, sync.b),
                            !.eq_rev = Object_py_eq(sync.b, sync.a)]
    /\ UNCHANGED <<prog, progress, hist, repl, replOut>>

\* the expressions (a + b) + c and a + (b + c) executed by a frame
ApplyAdd ==
    /\ ObjectFresh
    /\ LET a == Expr_Constant(sync.a)
           b == Expr_Constant(sync.b)
           c == Expr_Constant(sync.c)
       IN sync' = [sync EXCEPT
                     !.op = "add",
                     !.left = Frame_execute_expr(EmptyFrame, Expr_Op(Expr_Op(a, "Add", b), "Add", c),
                                                 sync.build),
                     !.right = Frame_execute_expr(EmptyFrame, Expr_Op(a, "Add", Expr_Op(b, "Add", c)),
                                                  sync.build)]
    /\ UNCHANGED <<prog, progress, hist, repl, replOut>>

\* self.modulus(other), and the expression a % b executed by a frame
ApplyModulus ==
    /\ ObjectFresh
    /\ sync' = [sync EXCEPT
                  !.op = "modulus",
                  !.mod = Object_modulus(sync.a, sync.b, sync.build),
                  !.left = Frame_execute_expr(EmptyFrame,
                               Expr_Op(Expr_Constant(sync.a), "Mod", Expr_Constant(sync.b)),
                               sync.build)]
    /\ UNCHANGED <<prog, progress, hist, repl, replOut>>

\* self.modulus_eq(other, right_value)
ApplyModulusEq ==
    /\ ObjectFresh
    /\ \E right_value \in {Zero, One} :
         sync' = [sync EXCEPT !.op = "modulus_eq", !.right_value = right_value,
                              !.mod_eq = Object_modulus_eq(sync.a, sync.b, right_value)]
    /\ UNCHANGED <<prog, progress, hist, repl, replOut>>

\* m = self.modulus(other) then m.py_eq(Int(right_value)), beside
\* self.modulus_eq(other, right_value) on the same operands
UnfusedEq(m, right_value) == m.k = "Some" /\ Object_py_eq(m.v, Object_Int(right_value))
ApplyModulusThenPyEq ==
    /\ ObjectFresh
    /\ \E right_value \in {Zero, One, MinusOne} :
         sync' = [sync EXCEPT !.op = "modulus_then_py_eq", !.right_value = right_value,
                              !.mod = Object_modulus(sync.a, sync.b, sync.build),
                              !.eq = UnfusedEq(Object_modulus(sync.a, sync.b, sync.build), right_value),
                              !.mod_eq = Object_modulus_eq(sync.a, sync.b, right_value)]
    /\ UNCHANGED <<prog, progress, hist, repl, replOut>>

NextObject == ApplyPyEq \/ ApplyAdd \/ ApplyModulus \/ ApplyModulusEq \/ ApplyModulusThenPyEq
SpecObject == InitObject /\ [][NextObject]_vars

(***************************************************************************)
(* A target and an operand drawn from a sample of objects: the node        *)
(* `v += x` and the node `v = v + x`, each executed on the same frame.     *)
(***************************************************************************)
AugObjects ==
    {Object_Undefined, Object_None, Object_True, Object_Int(One), Object_Int(MaxI64),
     Object_Int(MinI64), Object_Str(<<>>), Object_Str(<<"x">>), Object_Str(<<"a", "b">>),
     Object_List(<<>>), Object_List(<<Object_Int(One)>>),
     Object_List(<<Object_Str(<<"x">>), Object_None>>)}
\* the operand: a constant, the name in slot 1, or the target itself
AugOperands == {"constant", "name", "target"}
NotExecuted == [frame |-> [namespace |-> <<>>], result |-> RunErr("not executed")]

InitAug ==
    /\ prog = 1
    /\ progress = Idle
    /\ hist = NoHist
    /\ repl = NoRepl
    /\ replOut = NoReplOut
    /\ \E build \in Builds, v \in AugObjects, x \in AugObjects, operand \in AugOperands :
         sync = [mode |-> "aug", build |-> build, operand |-> operand,
                 frame |-> [namespace |-> <<v, x>>],
                 op_assign |-> NotExecuted, assign |-> NotExecuted]

AugOperand ==
    CASE sync.operand = "constant" -> Expr_Constant(sync.frame.namespace[2])
      [] sync.operand = "name" -> Expr_Name(1)
      [] sync.operand = "target" -> Expr_Name(0)

\* Frame::execute_node on Node::OpAssign: v += x
ExecuteAugmented ==
    /\ sync.mode = "aug"
    /\ sync.op_assign = NotExecuted
    /\ sync' = [sync EXCEPT
                  !.op_assign = Frame_op_assign(sync.frame, 0, "Add", AugOperand, sync.build)]
    /\ UNCHANGED <<prog, progress, hist, repl, replOut>>

\* Frame::execute_node on Node::Assign: v = v + x
ExecutePlain ==
    /\ sync.mode = "aug"
    /\ sync.assign = NotExecuted
    /\ sync' = [sync EXCEPT
                  !.assign = Frame_assign(sync.frame, 0, Expr_Op(Expr_Name(0), "Add", AugOperand),
                                          sync.build)]
    /\ UNCHANGED <<prog, progress, hist, repl, replOut>>

NextAug == ExecuteAugmented \/ ExecutePlain
SpecAug == InitAug /\ [][NextAug]_vars

(***************************************************************************)
(* For loops over range(n): the loop head, one pass of the body per step,  *)
(* and the expression after the loop.                                      *)
(***************************************************************************)
SmallInt(n) == I64(n, 0, 0, 0)
Lit(n) == Expr_Constant(Object_Int(SmallInt(n)))
StrLit(s) == Expr_Constant(Object_Str(s))
\* the sizes range() is called with; 1000 is the size in the tests
RangeSizes == {MinusOne, MinI64, SmallInt(0), SmallInt(1), SmallInt(3), SmallInt(5), SmallInt(1000)}
\* slot 0 is v, slot 1 is the loop target i
LoopBodies ==
    [op_assign |->
        <<Node_If(Expr_CmpOp(Expr_Op(Expr_Name(1), "Mod", Lit(13)), "Eq", Lit(0)),
                  <<Node_OpAssign(0, "Add", StrLit(<<"x">>))>>, <<>>)>>,
     assign |->
        <<Node_If(Expr_CmpOp(Expr_Op(Expr_Name(1), "Mod", Lit(13)), "Eq", Lit(0)),
                  <<Node_Assign(0, Expr_Op(Expr_Name(0), "Add", StrLit(<<"x">>)))>>, <<>>)>>,
     every |-> <<Node_OpAssign(0, "Add", StrLit(<<"x">>))>>,
     fails_at_2 |->
        <<Node_If(Expr_CmpOp(Expr_Name(1), "Eq", Lit(2)),
                  <<Node_OpAssign(0, "Add", Lit(1))>>,
                  <<Node_OpAssign(0, "Add", StrLit(<<"x">>))>>)>>,
     rebinds_target |->
        <<Node_OpAssign(0, "Add", StrLit(<<"x">>)), Node_Assign(1, Lit(7))>>]
LoopSetup == <<Node_Assign(0, StrLit(<<>>))>>
LoopIter(size) == Expr_Call("Range", <<Expr_Constant(Object_Int(size))>>)
LoopLast == Expr_Call("Len", <<Expr_Name(0)>>)

InitLoop ==
    /\ prog = 1
    /\ progress = Idle
    /\ hist = NoHist
    /\ repl = NoRepl
    /\ replOut = NoReplOut
    /\ \E build \in Builds, body \in DOMAIN LoopBodies, size \in RangeSizes :
         sync = [mode |-> "loop", build |-> build, body |-> body, size |-> size,
                 frame |-> EmptyFrame, stage |-> "start", range_size |-> Zero, object |-> Zero,
                 executed |-> 0, result |-> RunOk(Object_None)]

\* Frame::for_loop up to the loop, on the frame the assignment before it left
Headed(frame, iter) ==
    IF iter.k # "Ok" \/ iter.v.t # "Range"
    THEN [sync EXCEPT !.frame = frame, !.stage = "error",
                      !.result = RunErr("For iter must be a range")]
    ELSE [sync EXCEPT !.frame = frame, !.stage = "loop", !.range_size = iter.v.v]
Entered(frame) == Headed(frame, Frame_execute_expr(frame, LoopIter(sync.size), sync.build))

\* the assignment before the loop, then Frame::for_loop up to the loop: the target is a
\* name and the iterable evaluates to a Range
EnterFor ==
    /\ sync.mode = "loop"
    /\ sync.stage = "start"
    /\ sync' = Entered(Frame_execute(sync.frame, LoopSetup, sync.build).frame)
    /\ UNCHANGED <<prog, progress, hist, repl, replOut>>

\* `0i64..range_size` has a next element
HasNext == ~IsNegative(sync.range_size) /\ LessLimbs(sync.object, sync.range_size)

\* mutant: the body is executed before the target is bound to the element
Bound(out, object) == [out EXCEPT !.frame.namespace[2] = Object_Int(object)]
IterateBody_BindsAfter(frame, object, body, build) ==
    Bound(Frame_execute(frame, body, build), object)
\* one pass of the loop in Frame::for_loop: the target is bound, then the body is executed
IterateBody(frame, object, body, build) ==
    Frame_execute([frame EXCEPT !.namespace[2] = Object_Int(object)], body, build)

Iterated(out) ==
    [sync EXCEPT !.frame = out.frame, !.executed = @ + 1, !.object = wrapping_add(@, One),
                 !.stage = IF out.result.k = "Ok" THEN "loop" ELSE "error",
                 !.result = out.result]
IterateFor ==
    /\ sync.mode = "loop"
    /\ sync.stage = "loop"
    /\ HasNext
    /\ sync' = Iterated(IterateBody(sync.frame, sync.object, LoopBodies[sync.body], sync.build))
    /\ UNCHANGED <<prog, progress, hist, repl, replOut>>

\* the range is exhausted: Frame::for_loop returns Ok and the node after the loop, len(v),
\* is executed
LeaveFor ==
    /\ sync.mode = "loop"
    /\ sync.stage = "loop"
    /\ ~HasNext
    /\ sync' = [sync EXCEPT !.stage = "done",
                            !.result = Frame_execute_expr(sync.frame, LoopLast, sync.build)]
    /\ UNCHANGED <<prog, progress, hist, repl, replOut>>

NextLoop == EnterFor \/ IterateFor \/ LeaveFor
SpecLoop == InitLoop /\ [][NextLoop]_vars

(***************************************************************************)
(* Programs over lists run by a frame: list displays, assignment of names, *)
(* += and len().                                                           *)
(***************************************************************************)
MaxListNodes == 4
Two == I64(2, 0, 0, 0)
ListDisplays == {Expr_List(<<Expr_Constant(Object_Int(One))>>),
                 Expr_List(<<Expr_Constant(Object_Int(Two))>>)}
SlotNames == {Expr_Name(id) : id \in 0..(FrameSlots - 1)}
Pair(i, j) == {i, j}

\* `aliases`: the pairs of names that the program has bound to one list object, by
\* `target = name`, and not rebound since
InitList ==
    /\ prog = 1
    /\ progress = Idle
    /\ hist = NoHist
    /\ repl = NoRepl
    /\ replOut = NoReplOut
    /\ \E build \in Builds :
         sync = [mode |-> "list", build |-> build, n |-> 0,
                 frame |-> [namespace |-> [i \in 1..FrameSlots |-> Object_Undefined]],
                 node |-> "none", target |-> 0, expr |-> Expr_Name(0),
                 result |-> RunOk(Object_None), aliases |-> {}, mutated |-> FALSE]

ListRunning ==
    /\ sync.mode = "list"
    /\ sync.n < MaxListNodes
    /\ sync.result.k = "Ok"

Rebound(aliases, target) == {p \in aliases : target \notin p}

\* Node::Assign, the object a list display
AssignList ==
    /\ ListRunning
    /\ \E target \in 0..(FrameSlots - 1), object \in ListDisplays :
         LET out == Frame_assign(sync.frame, target, object, sync.build)
         IN sync' = [sync EXCEPT !.n = @ + 1, !.node = "assign", !.target = target,
                                 !.expr = object, !.frame = out.frame, !.result = out.result,
                                 !.aliases = Rebound(@, target)]
    /\ UNCHANGED <<prog, progress, hist, repl, replOut>>

\* Node::Assign, the object another name
AssignName ==
    /\ ListRunning
    /\ \E target \in 0..(FrameSlots - 1), id \in 0..(FrameSlots - 1) :
         LET out == Frame_assign(sync.frame, target, Expr_Name(id), sync.build)
         IN /\ target # id
            /\ sync' = [sync EXCEPT
                          !.n = @ + 1, !.node = "assign", !.target = target,
                          !.expr = Expr_Name(id), !.frame = out.frame, !.result = out.result,
                          !.aliases = IF out.result.k = "Ok" /\ sync.frame.namespace[id + 1].t = "List"
                                      THEN Rebound(@, target) \cup {Pair(target, id)}
                                      ELSE Rebound(@, target)]
    /\ UNCHANGED <<prog, progress, hist, repl, replOut>>

\* Node::OpAssign with Operator::Add, the object a list display
ExtendList ==
    /\ ListRunning
    /\ \E target \in 0..(FrameSlots - 1), object \in ListDisplays :
         LET out == Frame_op_assign(sync.frame, target, "Add", object, sync.build)
         IN sync' = [sync EXCEPT !.n = @ + 1, !.node = "op_assign", !.target = target,
                                 !.expr = object, !.frame = out.frame, !.result = out.result,
                                 !.mutated = @ \/ (out.result.k = "Ok" /\ \E p \in sync.aliases : target \in p)]
    /\ UNCHANGED <<prog, progress, hist, repl, replOut>>

\* Node::Expr, the expression len(name)
ExecuteLen ==
    /\ ListRunning
    /\ \E id \in 0..(FrameSlots - 1) :
         sync' = [sync EXCEPT !.n = @ + 1, !.node = "expr", !.target = id,
                              !.expr = Expr_Call("Len", <<Expr_Name(id)>>),
                              !.result = Frame_execute_expr(sync.frame,
                                             Expr_Call("Len", <<Expr_Name(id)>>), sync.build)]
    /\ UNCHANGED <<prog, progress, hist, repl, replOut>>

NextList == AssignList \/ AssignName \/ ExtendList \/ ExecuteLen
SpecList == InitList /\ [][NextList]_vars

(***************************************************************************)
(* One compiled program run again and again: Executor::run of crates/monty *)
(* (a new heap per run, heap_capacity kept) and Executor::run of           *)
(* src/src/lib.rs (the executor's heap, cleared per run).                  *)
(***************************************************************************)
MaxRuns == 3
RunPrograms == {"1 + 1", "v = [7]", "p + 1", "a = 1; b = 2; raise ValueError"}
RunInputNames == {<<>>, <<"p">>}
RunInputs == {<<>>, <<ObjInt(5)>>, <<ObjInt(42)>>}

\* Exit, and Result<Exit, RunError> as RunFrame::execute returns it
ExitReturn(value) == [kind |-> "Return", value |-> value, exc |-> NoExc]
ExitRaise(exc)    == [kind |-> "Raise", value |-> NoneV, exc |-> exc]
RunFrameOk(exit)           == [k |-> "Ok", exit |-> exit, exc |-> NoExc, internal |-> ""]
RunError_Exc(exc)          == [k |-> "Exc", exit |-> ExitReturn(NoneV), exc |-> exc, internal |-> ""]
RunError_Internal(internal) == [k |-> "Internal", exit |-> ExitReturn(NoneV), exc |-> NoExc,
                                internal |-> internal]
\* Result<Exit, InternalRunError> as Executor::run returns it, or the panic of the run
ResOk(exit)      == [k |-> "Ok", exit |-> exit, internal |-> ""]
ResErr(internal) == [k |-> "Err", exit |-> ExitReturn(NoneV), internal |-> internal]
ResPanic         == [k |-> "Panic", exit |-> ExitReturn(NoneV), internal |-> "index out of bounds"]

\* Executor::new (src/src/lib.rs): the prepared nodes, the initial namespace, an empty heap
LegacyExecutor_new(code, input_names) ==
    LET ex == Executor_new(code, input_names, <<>>)
    IN [initial_namespace |-> [i \in 1..ex.namespace_size |-> Undefined],
        nodes |-> ex.module_code, heap |-> <<>>]

\* RunFrame::new(namespace).execute(heap, nodes)
RunFrame_execute(namespace, heap, nodes) ==
    LET vm == VM_run_module(nodes, VM_new(heap, namespace))
    IN [heap |-> vm.heap,
        result |-> CASE vm.exit.k = "Return" -> RunFrameOk(ExitReturn(vm.exit.value))
                     [] vm.exit.k = "Err" -> RunError_Exc(vm.exit.exc)
                     [] OTHER -> RunError_Internal(vm.exit.k)]

\* mutant: an exception of the program is returned as Err
LegacyExecutor_exit_ExcIsErr(result) ==
    CASE result.k = "Ok" -> ResOk(result.exit)
      [] result.k = "Exc" -> ResErr(result.exc.type)
      [] result.k = "Internal" -> ResErr(result.internal)

\* the match Executor::run ends with (src/src/lib.rs)
LegacyExecutor_exit(result) ==
    CASE result.k = "Ok" -> ResOk(result.exit)
      [] result.k = "Exc" -> ResOk(ExitRaise(result.exc))
      [] result.k = "Internal" -> ResErr(result.internal)

\* mutant: the heap of the run before is not cleared
LegacyExecutor_run_NoClear(self, inputs) ==
    LET heap == self.heap
        namespace == [i \in DOMAIN self.initial_namespace |->
                        IF i <= Len(inputs) THEN inputs[i] ELSE self.initial_namespace[i]]
        frame == RunFrame_execute(namespace, heap, self.nodes)
    IN IF Len(inputs) > Len(self.initial_namespace)
       THEN [executor |-> [self EXCEPT !.heap = heap], result |-> ResPanic]
       ELSE [executor |-> [self EXCEPT !.heap = frame.heap],
             result |-> LegacyExecutor_exit(frame.result)]

\* Executor::run (src/src/lib.rs): the executor afterwards and what the run returns
LegacyExecutor_run(self, inputs) ==
    LET heap == <<>>
        namespace == [i \in DOMAIN self.initial_namespace |->
                        IF i <= Len(inputs) THEN inputs[i] ELSE self.initial_namespace[i]]
        frame == RunFrame_execute(namespace, heap, self.nodes)
    IN IF Len(inputs) > Len(self.initial_namespace)
       THEN [executor |-> [self EXCEPT !.heap = heap], result |-> ResPanic]
       ELSE [executor |-> [self EXCEPT !.heap = frame.heap],
             result |-> LegacyExecutor_exit(frame.result)]

\* results of RunFrame::execute the final match is applied to, one per variant and more
FrameResults ==
    {RunFrameOk(ExitReturn(IntV(2))), RunFrameOk(ExitReturn(NoneV)),
     RunError_Exc(Exc("ValueError", "testing")), RunError_Exc(Exc("TypeError", "")),
     RunError_Internal("undefined variable"), RunError_Internal("unexpected pass")}

InitRuns ==
    /\ prog = 1
    /\ progress = Idle
    /\ hist = NoHist
    /\ repl = NoRepl
    /\ replOut = NoReplOut
    /\ \/ \E api \in {"crate", "lib"}, code \in RunPrograms, names \in RunInputNames :
            sync = [mode |-> "runs", api |-> api, code |-> code, input_names |-> names,
                    executor |-> Executor_new(code, names, <<>>),
                    lib |-> LegacyExecutor_new(code, names), runs |-> <<>>]
       \/ \E result \in FrameResults :
            sync = [mode |-> "frame_result", stage |-> "new", frame |-> result,
                    result |-> ResOk(ExitReturn(NoneV))]

\* Executor::run of crates/monty on the executor as the runs before left it
RunCrate ==
    /\ sync.mode = "runs"
    /\ sync.api = "crate"
    /\ Len(sync.runs) < MaxRuns
    /\ \E inputs \in RunInputs :
         LET out == Executor_run(sync.executor, inputs)
         IN sync' = [sync EXCEPT !.executor.heap_capacity = out.heap_capacity,
                                 !.runs = Append(@, [inputs |-> inputs, result |-> out.result,
                                                     heap |-> out.heap])]
    /\ UNCHANGED <<prog, progress, hist, repl, replOut>>

\* Executor::run of src/src/lib.rs on the executor as the runs before left it
RunLib ==
    /\ sync.mode = "runs"
    /\ sync.api = "lib"
    /\ Len(sync.runs) < MaxRuns
    /\ \E inputs \in RunInputs :
         LET out == LegacyExecutor_run(sync.lib, [i \in DOMAIN inputs |-> to_value(inputs[i])])
         IN sync' = [sync EXCEPT !.lib = out.executor,
                                 !.runs = Append(@, [inputs |-> inputs, result |-> out.result,
                                                     heap |-> out.executor.heap])]
    /\ UNCHANGED <<prog, progress, hist, repl, replOut>>

\* the final match of Executor::run on a result of RunFrame::execute
ConvertFrameResult ==
    /\ sync.mode = "frame_result"
    /\ sync.stage = "new"
    /\ sync' = [sync EXCEPT !.stage = "done", !.result = LegacyExecutor_exit(sync.frame)]
    /\ UNCHANGED <<prog, progress, hist, repl, replOut>>

NextRuns == RunCrate \/ RunLib \/ ConvertFrameResult
SpecRuns == InitRuns /\ [][NextRuns]_vars

(***************************************************************************)
(* The scheduler with several tasks (spec.md 4.6): a task table, the       *)
(* pending calls, the ready queue; FutureSnapshot::resume over it.         *)
(* TaskId 0 is the main task; the others are spawned by it.  A task's      *)
(* `since`, `blocked_at` and `woken_by` record when it became runnable,    *)
(* when it blocked, and which resolution made it runnable.                 *)
(***************************************************************************)
\* the programs run, as the operations of the main task and of each task it spawns:
\* "await" awaits the future of the task's own last call, "await first" the future of the
\* program's first call (shared through a global), "gather" gathers the spawned tasks inside
\* try / except
TaskPrograms ==
    <<[main |-> <<"spawn", "spawn", "gather", "call", "await", "return">>,
       child |-> <<"call", "await", "return">>],
      [main |-> <<"call", "spawn", "spawn", "gather", "await", "return">>,
       child |-> <<"await first", "return">>],
      [main |-> <<"spawn", "call", "spawn", "await", "gather", "return">>,
       child |-> <<"call", "await", "return">>],
      [main |-> <<"spawn", "call", "await", "call", "await", "return">>,
       child |-> <<"await first", "call", "await", "return">>]>>

Task(st) == [st |-> st, pc |-> 1, on |-> <<>>, gather |-> FALSE, cancelled |-> FALSE,
             err |-> FALSE, since |-> 0, blocked_at |-> 0, woken_by |-> 0]
TaskIds(s) == 0..(Len(s.tasks) - 1)
Children(s) == 1..(Len(s.tasks) - 1)
Scheduler_new ==
    [tasks |-> <<Task("running")>>, calls |-> <<>>, ready |-> <<>>, current |-> 0,
     clock |-> 1, resolutions |-> 0, exit |-> "none", pending_call_ids |-> <<>>]

\* Scheduler::get_pending_call_ids: every unresolved call, ascending
Scheduler_pending(s) ==
    SortedSeq({i - 1 : i \in {j \in DOMAIN s.calls : s.calls[j].st = "pending"}})

\* a task becomes runnable: the back of the ready queue
Enqueue(s, t, ev) ==
    [s EXCEPT !.ready = Append(@, t), !.tasks[t + 1].st = "ready", !.tasks[t + 1].on = <<>>,
              !.tasks[t + 1].gather = FALSE, !.tasks[t + 1].since = s.clock,
              !.tasks[t + 1].woken_by = ev, !.clock = @ + 1]

\* mutant: the task that became runnable last is run next
Scheduler_next_Lifo(s) ==
    IF s.ready = <<>>
    THEN IF \E t \in TaskIds(s) : s.tasks[t + 1].st = "blocked" /\ Scheduler_pending(s) # <<>>
         THEN [s EXCEPT !.current = -1, !.exit = "ResolveFutures",
                        !.pending_call_ids = Scheduler_pending(s)]
         ELSE [s EXCEPT !.current = -1, !.exit = "Stuck"]
    ELSE [s EXCEPT !.current = Last(s.ready), !.ready = Front(s.ready),
                   !.tasks[Last(s.ready) + 1].st = "running"]

\* the running task has suspended or ended: the front of the ready queue runs; with no
\* runnable task the VM leaves its loop with ResolveFutures(pending)
Scheduler_next(s) ==
    IF s.ready = <<>>
    THEN IF \E t \in TaskIds(s) : s.tasks[t + 1].st = "blocked" /\ Scheduler_pending(s) # <<>>
         THEN [s EXCEPT !.current = -1, !.exit = "ResolveFutures",
                        !.pending_call_ids = Scheduler_pending(s)]
         ELSE [s EXCEPT !.current = -1, !.exit = "Stuck"]
    ELSE [s EXCEPT !.current = Head(s.ready), !.ready = Tail(s.ready),
                   !.tasks[Head(s.ready) + 1].st = "running"]

\* the running task blocks
Scheduler_block(s, ids, gather) ==
    LET t == s.current
    IN Scheduler_next([s EXCEPT !.tasks[t + 1].st = "blocked", !.tasks[t + 1].on = ids,
                                !.tasks[t + 1].gather = gather,
                                !.tasks[t + 1].blocked_at = s.clock,
                                !.tasks[t + 1].woken_by = 0, !.clock = @ + 1])

\* the tasks of a set in the order they blocked
RECURSIVE InAwaitOrder(_, _)
InAwaitOrder(s, ts) ==
    IF ts = {} THEN <<>>
    ELSE LET t == CHOOSE x \in ts : \A y \in ts : s.tasks[x + 1].blocked_at <= s.tasks[y + 1].blocked_at
         IN <<t>> \o InAwaitOrder(s, ts \ {t})
RECURSIVE EnqueueAll(_, _, _, _)
EnqueueAll(s, ts, ev, err) ==
    IF ts = <<>> THEN s
    ELSE EnqueueAll([Enqueue(s, Head(ts), ev) EXCEPT !.tasks[Head(ts) + 1].err = err],
                    Tail(ts), ev, err)

\* the tasks a resolution of call cid makes runnable: blocked on it, on nothing unresolved
\* besides it, and not cancelled
Unblocked(s, cid) ==
    {t \in TaskIds(s) :
        /\ s.tasks[t + 1].st = "blocked" /\ ~s.tasks[t + 1].cancelled
        /\ cid \in Range(s.tasks[t + 1].on)
        /\ \A c \in Range(s.tasks[t + 1].on) : c = cid \/ s.calls[c + 1].st = "ok"}

\* Scheduler::resolve (VM::resolve_future)
Scheduler_resolve(s, cid) ==
    LET ev == s.resolutions + 1
        s1 == [s EXCEPT !.calls[cid + 1].st = "ok", !.resolutions = ev]
    IN EnqueueAll(s1, InAwaitOrder(s, Unblocked(s, cid)), ev, FALSE)

\* Scheduler::fail (VM::fail_future): the awaiting tasks are scheduled to raise at the await
Scheduler_fail(s, cid) ==
    LET ev == s.resolutions + 1
        s1 == [s EXCEPT !.calls[cid + 1].st = "err", !.resolutions = ev]
        ts == {t \in TaskIds(s) : s.tasks[t + 1].st = "blocked" /\ ~s.tasks[t + 1].cancelled
                                   /\ cid \in Range(s.tasks[t + 1].on)}
    IN EnqueueAll(s1, InAwaitOrder(s, ts), ev, TRUE)

\* gather: the first error cancels the siblings; their place in the ready queue is given up
Scheduler_cancel(s, ts) ==
    [s EXCEPT !.tasks = [i \in DOMAIN @ |->
                           IF (i - 1) \in ts THEN [@[i] EXCEPT !.cancelled = TRUE, !.st = "blocked"]
                           ELSE @[i]],
              !.ready = SelectSeq(@, LAMBDA t : t \notin ts)]

\* a child task has ended: a gather of the main task completes when every child has, and
\* raises, cancelling the other children, when one failed
ChildEnded(s, failed) ==
    LET main == s.tasks[1]
        live == {t \in Children(s) : s.tasks[t + 1].st \notin {"done", "failed"}}
    IN IF main.st = "blocked" /\ main.gather
       THEN IF failed THEN Enqueue(Scheduler_cancel(s, live), 0, 0)
            ELSE IF live = {} THEN Enqueue(s, 0, 0)
            ELSE s
       ELSE s

\* the loop of FutureSnapshot::resume over the results, in the order given
RECURSIVE ApplyTaskResults(_, _)
ApplyTaskResults(s, results) ==
    IF results = <<>> THEN s
    ELSE LET call_id    == Head(results)[1]
             ext_result == Head(results)[2]
             s2 == CASE ext_result.r = "Return" -> Scheduler_resolve(s, call_id)
                     [] ext_result.r = "Error" -> Scheduler_fail(s, call_id)
                     [] ext_result.r = "Future" -> s
         IN ApplyTaskResults(s2, Tail(results))

\* mutant: only the calls of tasks that are not cancelled count as pending
TaskSnapshot_resume_LiveOnly(s, results) ==
    LET live == SelectSeq(s.pending_call_ids,
                          LAMBDA c : ~s.tasks[s.calls[c + 1].creator + 1].cancelled)
        invalid == invalid_call_id(results, live)
        s1 == ApplyTaskResults([s EXCEPT !.exit = "none"], results)
        main_ready == s1.tasks[1].st = "ready"
        loaded == s1.ready # <<>>
        s2 == Scheduler_next(s1)
    IN IF invalid # -1 THEN [s EXCEPT !.exit = "Err: unknown call_id"]
       ELSE IF s1.tasks[1].err THEN [s1 EXCEPT !.exit = "Err"]
       ELSE IF ~main_ready /\ ~loaded
       THEN IF Scheduler_pending(s1) # <<>>
            THEN [s1 EXCEPT !.exit = "ResolveFutures", !.pending_call_ids = Scheduler_pending(s1)]
            ELSE [s1 EXCEPT !.exit = "Stuck"]
       ELSE s2

\* FutureSnapshot::resume over the task scheduler
TaskSnapshot_resume(s, results) ==
    LET invalid == invalid_call_id(results, s.pending_call_ids)
        s1 == ApplyTaskResults([s EXCEPT !.exit = "none"], results)
        main_ready == s1.tasks[1].st = "ready"
        loaded == s1.ready # <<>>
        s2 == Scheduler_next(s1)
    IN IF invalid # -1 THEN [s EXCEPT !.exit = "Err: unknown call_id"]
       ELSE IF s1.tasks[1].err THEN [s1 EXCEPT !.exit = "Err"]
       ELSE IF ~main_ready /\ ~loaded
       THEN IF Scheduler_pending(s1) # <<>>
            THEN [s1 EXCEPT !.exit = "ResolveFutures", !.pending_call_ids = Scheduler_pending(s1)]
            ELSE [s1 EXCEPT !.exit = "Stuck"]
       ELSE s2

NoTaskOp == [op |-> "none", task |-> 0, results |-> <<>>, dropped |-> {}]
InitTasks ==
    /\ prog = 1
    /\ progress = Idle
    /\ hist = NoHist
    /\ repl = NoRepl
    /\ replOut = NoReplOut
    /\ \E program \in DOMAIN TaskPrograms :
         sync = [mode |-> "tasks", program |-> program, sched |-> Scheduler_new, last |-> NoTaskOp]

TaskRunning == sync.mode = "tasks" /\ sync.sched.exit = "none" /\ sync.sched.current >= 0
CurrentTask == sync.sched.tasks[sync.sched.current + 1]
Script(t) == IF t = 0 THEN TaskPrograms[sync.program].main ELSE TaskPrograms[sync.program].child
\* the operation the running task is at
NextOp == IF CurrentTask.err THEN "raise" ELSE Script(sync.sched.current)[CurrentTask.pc]
Advance(s) == [s EXCEPT !.tasks[s.current + 1].pc = @ + 1]
Did(op) == [op |-> op, task |-> sync.sched.current, results |-> <<>>, dropped |-> {}]
OwnCall(s, t) == CHOOSE c \in 0..(Len(s.calls) - 1) :
                    /\ s.calls[c + 1].creator = t
                    /\ \A d \in 0..(Len(s.calls) - 1) : s.calls[d + 1].creator = t => d <= c

\* SpawnTask: the new task is enqueued runnable, the running task goes on
SpawnTask ==
    /\ TaskRunning
    /\ NextOp = "spawn"
    /\ LET s == Advance(sync.sched)
           t == Len(s.tasks)
       IN sync' = [sync EXCEPT !.sched = Enqueue([s EXCEPT !.tasks = Append(@, Task("ready"))], t, 0),
                               !.last = Did("spawn")]
    /\ UNCHANGED <<prog, progress, hist, repl, replOut>>

\* CallExternal answered by the host with ExternalResult::Future (Snapshot::run): the call
\* is added to the pending calls and the same task goes on
CallExternalPending ==
    /\ TaskRunning
    /\ NextOp = "call"
    /\ sync' = [sync EXCEPT
                  !.sched = [Advance(@) EXCEPT
                               !.calls = Append(@, [creator |-> sync.sched.current, st |-> "pending"])],
                  !.last = Did("call")]
    /\ UNCHANGED <<prog, progress, hist, repl, replOut>>

\* Await of an external future: continue when resolved, raise when failed, block otherwise
AwaitFuture ==
    /\ TaskRunning
    /\ NextOp \in {"await", "await first"}
    /\ LET s == Advance(sync.sched)
           cid == IF NextOp = "await" THEN OwnCall(s, s.current) ELSE 0
       IN sync' = [sync EXCEPT
                     !.sched = CASE s.calls[cid + 1].st = "ok" -> s
                                 [] s.calls[cid + 1].st = "err" -> [s EXCEPT !.tasks[s.current + 1].err = TRUE]
                                 [] OTHER -> Scheduler_block(s, <<cid>>, FALSE),
                     !.last = Did("await")]
    /\ UNCHANGED <<prog, progress, hist, repl, replOut>>

\* Gather of the spawned tasks: continue when all have returned, raise (into the except
\* clause) and cancel the others when one has failed, block otherwise
GatherChildren ==
    /\ TaskRunning
    /\ NextOp = "gather"
    /\ LET s == Advance(sync.sched)
           live == {t \in Children(s) : s.tasks[t + 1].st \notin {"done", "failed"}}
       IN sync' = [sync EXCEPT
                     !.sched = IF \E t \in Children(s) : s.tasks[t + 1].st = "failed"
                               THEN Scheduler_cancel(s, live)
                               ELSE IF live = {} THEN s
                               ELSE Scheduler_block(s, <<>>, TRUE),
                     !.last = Did("gather")]
    /\ UNCHANGED <<prog, progress, hist, repl, replOut>>

\* the running task returns
TaskReturn ==
    /\ TaskRunning
    /\ NextOp = "return"
    /\ LET s == sync.sched
           t == s.current
           ended == [s EXCEPT !.tasks[t + 1].st = "done"]
       IN sync' = [sync EXCEPT
                     !.sched = IF t = 0 THEN [ended EXCEPT !.current = -1, !.exit = "Complete"]
                               ELSE Scheduler_next(ChildEnded(ended, FALSE)),
                     !.last = Did("return")]
    /\ UNCHANGED <<prog, progress, hist, repl, replOut>>

\* the running task raises at its await, with no handler
TaskRaise ==
    /\ TaskRunning
    /\ NextOp = "raise"
    /\ LET s == sync.sched
           t == s.current
           ended == [s EXCEPT !.tasks[t + 1].st = "failed"]
       IN sync' = [sync EXCEPT
                     !.sched = IF t = 0 THEN [ended EXCEPT !.current = -1, !.exit = "Err"]
                               ELSE Scheduler_next(ChildEnded(ended, TRUE)),
                     !.last = Did("raise")]
    /\ UNCHANGED <<prog, progress, hist, repl, replOut>>

\* the results the host resumes with: one call id returned or failed, or two different ones
\* returned, in either order; the ids are the unresolved ones and one the scheduler never
\* allocated
TaskResults(s) ==
    LET ids == {i - 1 : i \in {j \in DOMAIN s.calls : s.calls[j].st = "pending"}} \cup {Len(s.calls)}
        answers == {Return(ObjInt(5)), Error(HostExc)}
    IN {<<<<i, a>>>> : i \in ids, a \in answers}
       \cup {<<<<p[1], Return(ObjInt(5))>>, <<p[2], Return(ObjInt(5))>>>> :
                 p \in {q \in ids \X ids : q[1] # q[2]}}

\* the call ids of results whose creator is a cancelled task
OfCancelled(s, results) ==
    {c \in {results[i][1] : i \in DOMAIN results} :
        c < Len(s.calls) /\ s.tasks[s.calls[c + 1].creator + 1].cancelled}

\* FutureSnapshot::resume
ResumeTasks ==
    /\ sync.mode = "tasks"
    /\ sync.sched.exit = "ResolveFutures"
    /\ \E results \in TaskResults(sync.sched) :
         sync' = [sync EXCEPT
                    !.sched = TaskSnapshot_resume(@, results),
                    !.last = [op |-> "resume", task |-> -1, results |-> results,
                              dropped |-> OfCancelled(sync.sched, results)]]
    /\ UNCHANGED <<prog, progress, hist, repl, replOut>>

NextTasks ==
    \/ SpawnTask \/ CallExternalPending \/ AwaitFuture \/ GatherChildren
    \/ TaskReturn \/ TaskRaise \/ ResumeTasks
SpecTasks == InitTasks /\ [][NextTasks]_vars

(***************************************************************************)
(* The reference-counted heap and the resource tracker (Heap, Value,       *)
(* ResourceTracker), as the heap of Executor::run / run_ref_counts uses    *)
(* them: every value copy increments, every drop decrements, an entry is   *)
(* reclaimed at zero and its children are decremented in turn.             *)
(***************************************************************************)
\* statements a counted run may execute
MaxStatements == 3
\* budgets of the LimitedTracker under test: heap bytes, opcodes, recursion depth
MaxMemory == 3
MaxOperations == 5
MaxDepth == 1
\* opcodes between two on_step calls
StepBatch == 4

\* ResourceTracker implementations
NoLimitTracker ==
    [limited |-> FALSE, max_memory |-> 0, max_operations |-> 0, max_depth |-> 0,
     memory |-> 0, operations |-> 0, exhausted |-> FALSE]
LimitedTracker(max_memory, max_operations, max_depth) ==
    [limited |-> TRUE, max_memory |-> max_memory, max_operations |-> max_operations,
     max_depth |-> max_depth, memory |-> 0, operations |-> 0, exhausted |-> FALSE]
Charged(tracker, over, charged) ==
    IF ~tracker.limited THEN [ok |-> TRUE, tracker |-> tracker]
    ELSE IF tracker.exhausted \/ over THEN [ok |-> FALSE, tracker |-> [tracker EXCEPT !.exhausted = TRUE]]
    ELSE [ok |-> TRUE, tracker |-> charged]
\* a tracker that compares each charge with its budget and keeps no exhausted state
Tracker_on_alloc_Recheck(tracker, bytes) ==
    IF ~tracker.limited \/ tracker.memory + bytes <= tracker.max_memory
    THEN [ok |-> TRUE, tracker |-> [tracker EXCEPT !.memory = @ + bytes]]
    ELSE [ok |-> FALSE, tracker |-> tracker]
\* ResourceTracker::on_alloc
Tracker_on_alloc(tracker, bytes) ==
    Charged(tracker, tracker.memory + bytes > tracker.max_memory,
            [tracker EXCEPT !.memory = @ + bytes])
\* ResourceTracker::on_step
Tracker_on_step(tracker, count) ==
    Charged(tracker, tracker.operations + count > tracker.max_operations,
            [tracker EXCEPT !.operations = @ + count])
\* ResourceTracker::on_recurse
Tracker_on_recurse(tracker, depth) ==
    Charged(tracker, depth > tracker.max_depth, tracker)

\* the counted machine: heap entries [items, rc, live], globals, operand stack, frame
\* depth, the tracker, the opcodes not yet charged, the exception being raised and the
\* counters of the heap calls and of the tracker calls
Machine(tracker) ==
    [heap |-> <<>>, ns |-> <<Undefined, Undefined>>, stack |-> <<>>, depth |-> 0,
     tracker |-> tracker, uncharged |-> 0, charges |-> 0, exc |-> "",
     allocs |-> 0, incs |-> 0, decs |-> 0]
ChildIds(items) == LET refs == SelectSeq(items, LAMBDA v : v.t = "Ref")
                   IN [i \in DOMAIN refs |-> refs[i].v]
EntryBytes(items) == 1 + Len(items)
Heap_entry_count(heap) == Cardinality({i \in DOMAIN heap : heap[i].live})
Heap_get_refcount(heap, id) == heap[id + 1].rc

\* Heap::incref
Heap_incref(m, id) == [m EXCEPT !.heap[id + 1].rc = @ + 1, !.incs = @ + 1]
\* Heap::decref of each id in turn; an entry reaching zero is reclaimed and its children
\* are decremented
RECURSIVE DecRefEach(_, _)
DecRefEach(m, ids) ==
    IF ids = <<>> THEN m
    ELSE LET id == Head(ids)
             entry == m.heap[id + 1]
             m1 == [m EXCEPT !.heap[id + 1].rc = @ - 1, !.decs = @ + 1]
         IN IF entry.rc > 1 THEN DecRefEach(m1, Tail(ids))
            ELSE DecRefEach([m1 EXCEPT !.heap[id + 1].live = FALSE],
                            ChildIds(entry.items) \o Tail(ids))
Heap_decref(m, id) == DecRefEach(m, <<id>>)

\* Value::clone_with_heap and Value::drop_with_heap
Value_clone_with_heap(m, v) == IF v.t = "Ref" THEN Heap_incref(m, v.v) ELSE m
Value_drop_with_heap(m, v) == IF v.t = "Ref" THEN Heap_decref(m, v.v) ELSE m
RECURSIVE DropValues(_, _)
DropValues(m, values) ==
    IF values = <<>> THEN m
    ELSE DropValues(Value_drop_with_heap(m, Head(values)), Tail(values))

\* Heap::allocate: the tracker is consulted first; a veto raises ResourceError and the
\* payload is dropped
Heap_allocate(m, items) ==
    LET r == Tracker_on_alloc(m.tracker, EntryBytes(items))
    IN IF r.ok
       THEN [m EXCEPT !.tracker = r.tracker, !.charges = @ + 1, !.allocs = @ + 1,
                      !.heap = Append(@, [items |-> items, rc |-> 1, live |-> TRUE]),
                      !.stack = Append(@, Ref(Len(m.heap)))]
       ELSE [DropValues(m, items) EXCEPT !.tracker = r.tracker, !.charges = @ + 1,
                                         !.exc = "ResourceError"]

\* one opcode of the counted machine
CountedStep(ins, m) ==
    LET st == m.stack
    IN CASE ins.op = "LoadConst" -> [m EXCEPT !.stack = Append(st, IntV(ins.a))]
         [] ins.op = "LoadNone" -> [m EXCEPT !.stack = Append(st, NoneV)]
         [] ins.op = "Pop" -> Value_drop_with_heap([m EXCEPT !.stack = Front(st)], Last(st))
         [] ins.op = "LoadGlobal" ->
              IF m.ns[ins.a + 1] = Undefined THEN [m EXCEPT !.exc = "NameError"]
              ELSE Value_clone_with_heap([m EXCEPT !.stack = Append(st, m.ns[ins.a + 1])],
                                         m.ns[ins.a + 1])
         [] ins.op = "StoreGlobal" ->
              Value_drop_with_heap([m EXCEPT !.stack = Front(st), !.ns[ins.a + 1] = Last(st)],
                                   m.ns[ins.a + 1])
         [] ins.op = "BuildList" ->
              Heap_allocate([m EXCEPT !.stack = DropLast(st, ins.a)], TakeLast(st, ins.a))
         [] OTHER -> m

\* the opcodes in order until one raises
RECURSIVE CountedRun(_, _)
CountedRun(code, m) ==
    IF code = <<>> \/ m.exc # "" THEN m ELSE CountedRun(Tail(code), CountedStep(Head(code), m))

\* the opcodes of a statement: on_step is called when StepBatch opcodes have gathered; an
\* exception unwinds the operand stack, dropping its values
RunBatch(code, m) ==
    LET count == m.uncharged + Len(code)
        r == Tracker_on_step(m.tracker, count)
        ran == IF count < StepBatch THEN CountedRun(code, [m EXCEPT !.uncharged = count])
               ELSE IF r.ok
               THEN CountedRun(code, [m EXCEPT !.tracker = r.tracker, !.uncharged = 0,
                                               !.charges = @ + 1])
               ELSE [m EXCEPT !.tracker = r.tracker, !.uncharged = 0, !.charges = @ + 1,
                              !.exc = "ResourceError"]
    IN IF ran.exc = "" THEN ran ELSE [DropValues(ran, ran.stack) EXCEPT !.stack = <<>>]

\* the statements of the counted programs, over the globals a and b
HeapNameMap == AddNames(<<>>, <<"a", "b">>)
HeapStatements ==
    <<Assign("a", ListE(<<Const(7)>>)), Assign("b", Name("a")), Assign("b", ListE(<<Name("a")>>)),
      Assign("a", Const(1)), Assign("b", ListE(<<>>)), ExprStmt(ListE(<<>>))>>
HeapReturns == <<<<ExprStmt(Name("a"))>>, <<ExprStmt(Name("b"))>>, <<>>>>
HeapTrackers == {NoLimitTracker, LimitedTracker(MaxMemory, MaxOperations, MaxDepth)}

NoCharge == [op |-> "none", charged |-> FALSE, raised |-> "", exhausted |-> FALSE]
NoRefCounts == [counts |-> <<0, 0>>, unique_refs |-> 0, heap_count |-> 0,
                sum |-> 0, increments |-> 0, decrements |-> 0]
InitHeap ==
    /\ prog = 1
    /\ progress = Idle
    /\ hist = NoHist
    /\ repl = NoRepl
    /\ replOut = NoReplOut
    /\ \E tracker \in HeapTrackers :
         sync = [mode |-> "heap", vm |-> Machine(tracker), statements |-> 0, exit |-> "none",
                 at_end |-> NoRefCounts, last |-> NoCharge]

HeapRunning == sync.mode = "heap" /\ sync.exit = "none"
Charge(op, m) == [op |-> op, charged |-> m.charges > sync.vm.charges, raised |-> m.exc,
                  exhausted |-> sync.vm.tracker.exhausted]
Caught(m) == [m EXCEPT !.exc = ""]

\* one statement inside try / except: its opcode batch is charged and executed, and an
\* exception it raises is caught, the program going on with the next statement
ExecuteStatement ==
    /\ HeapRunning
    /\ sync.statements < MaxStatements
    /\ \E i \in DOMAIN HeapStatements :
         LET st == HeapStatements[i]
             m == RunBatch(CompileStmt(st, FALSE, HeapNameMap, <<>>), sync.vm)
         IN sync' = [sync EXCEPT !.vm = Caught(m), !.statements = @ + 1,
                                 !.last = Charge(IF st.v.e = "list" THEN "alloc" ELSE "step", m)]
    /\ UNCHANGED <<prog, progress, hist, repl, replOut>>

\* a function call inside try / except: the tracker is asked before the frame is pushed
PushFrame ==
    /\ HeapRunning
    /\ sync.statements < MaxStatements
    /\ LET r == Tracker_on_recurse(sync.vm.tracker, sync.vm.depth + 1)
           m == IF r.ok THEN [sync.vm EXCEPT !.tracker = r.tracker, !.charges = @ + 1,
                                             !.depth = @ + 1]
                ELSE [sync.vm EXCEPT !.tracker = r.tracker, !.charges = @ + 1,
                                     !.exc = "ResourceError"]
       IN sync' = [sync EXCEPT !.vm = Caught(m), !.statements = @ + 1,
                               !.last = Charge("frame push", m)]
    /\ UNCHANGED <<prog, progress, hist, repl, replOut>>

\* the called function returns None: its frame is popped
PopFrame ==
    /\ HeapRunning
    /\ sync.vm.depth > 0
    /\ sync' = [sync EXCEPT !.vm.depth = @ - 1, !.last = NoCharge]
    /\ UNCHANGED <<prog, progress, hist, repl, replOut>>

RECURSIVE SumSeq(_)
SumSeq(s) == IF s = <<>> THEN 0 ELSE Head(s) + SumSeq(Tail(s))
RefCountSum(heap) == SumSeq([i \in DOMAIN heap |-> IF heap[i].live THEN heap[i].rc ELSE 0])
\* the reference counts read before the namespace is dropped
RefCounts(m) ==
    LET refs == {m.ns[i].v : i \in {j \in DOMAIN m.ns : m.ns[j].t = "Ref"}}
    IN [counts |-> [i \in DOMAIN m.ns |->
                      IF m.ns[i].t = "Ref" THEN Heap_get_refcount(m.heap, m.ns[i].v) ELSE 0],
        unique_refs |-> Cardinality(refs), heap_count |-> Heap_entry_count(m.heap),
        sum |-> RefCountSum(m.heap), increments |-> m.allocs + m.incs, decrements |-> m.decs]

\* mutant: the globals are not dropped after the counts are read
run_ref_counts_KeepsGlobals(m, last_statement) ==
    LET ran == RunBatch(compile_module(last_statement, HeapNameMap, <<>>), m)
        done == IF ran.exc = "" THEN DropValues(ran, ran.stack) ELSE ran
    IN [vm |-> [done EXCEPT !.ns = <<Undefined, Undefined>>, !.stack = <<>>],
        exit |-> IF ran.exc = "" THEN "Return" ELSE ran.exc,
        at_end |-> RefCounts(ran)]

\* run_ref_counts after the statements: the module's last statement returns, the counts
\* are read, every global is dropped, then the return value
run_ref_counts(m, last_statement) ==
    LET ran == RunBatch(compile_module(last_statement, HeapNameMap, <<>>), m)
        dropped == DropValues(ran, ran.ns)
        done == IF ran.exc = "" THEN DropValues(dropped, ran.stack) ELSE dropped
    IN [vm |-> [done EXCEPT !.ns = <<Undefined, Undefined>>, !.stack = <<>>],
        exit |-> IF ran.exc = "" THEN "Return" ELSE ran.exc,
        at_end |-> RefCounts(ran)]

RunRefCounts ==
    /\ HeapRunning
    /\ sync.vm.depth = 0
    /\ \E i \in DOMAIN HeapReturns :
         LET r == run_ref_counts(sync.vm, HeapReturns[i])
         IN sync' = [sync EXCEPT !.vm = r.vm, !.exit = r.exit, !.at_end = r.at_end,
                                 !.last = [op |-> "step", charged |-> r.vm.charges > sync.vm.charges,
                                           raised |-> IF r.exit = "Return" THEN "" ELSE r.exit,
                                           exhausted |-> sync.vm.tracker.exhausted]]
    /\ UNCHANGED <<prog, progress, hist, repl, replOut>>

NextHeap == ExecuteStatement \/ PushFrame \/ PopFrame \/ RunRefCounts
SpecHeap == InitHeap /\ [][NextHeap]_vars

(***************************************************************************)
(* Properties of the suspension protocol.                                  *)
(***************************************************************************)
Code == Executor(prog).module_code
InitialNamespace == prepare_namespaces(Executor(prog), <<>>).ns
OnlyReturns == \A i \in DOMAIN hist.answers : hist.answers[i].r = "Return"
NoDuplicates(s) == \A i, j \in DOMAIN s : i # j => s[i] # s[j]

\* the program run with every external / OS call expression evaluating to the next answer
RECURSIVE Oracle(_, _, _)
Oracle(code, c, answers) ==
    LET r == VM_run(code, c)
    IN IF r.exit.k \in {"ExternalCall", "OsCall"} /\ answers # <<>>
       THEN Oracle(code, Push([r EXCEPT !.exit = NoExit], to_value(Head(answers).obj)), Tail(answers))
       ELSE r

\* C1: a program started with start suspends at an external call with the function's
\* name, its evaluated arguments and a call id; resuming with Return(v) continues as if
\* the call expression had evaluated to v, and add_ints(40, 2) + 0 resumed with 42
\* completes with 42.
C1_ExternalCallRoundTrip ==
    /\ (hist.last.op \in {"start", "run"} /\ OnlyReturns) =>
         LET o == Oracle(Code, VM_new(<<>>, InitialNamespace), hist.answers)
         IN CASE o.exit.k = "Return" ->
                   progress.kind = "Complete" /\ progress.value = MontyObject_new(o.exit.value, o.heap)
              [] o.exit.k = "ExternalCall" ->
                   /\ progress.kind = "FunctionCall"
                   /\ progress.function_name = ExtFunctionNames[Code[o.ip - 1].a + 1]
                   /\ progress.args = [i \in DOMAIN o.exit.args |-> MontyObject_new(o.exit.args[i], o.heap)]
                   /\ progress.call_id = o.exit.call_id
              [] o.exit.k = "OsCall" ->
                   /\ progress.kind = "OsCall"
                   /\ progress.function = OsFunctions[Code[o.ip - 1].a + 1]
                   /\ progress.call_id = o.exit.call_id
              [] o.exit.k = "Err" -> progress.kind = "Err" /\ progress.exc = o.exit.exc
              [] OTHER -> FALSE
    /\ (prog = ProgNamed("add_ints(40, 2) + 0") /\ hist.last.op = "start") =>
         /\ progress.kind = "FunctionCall"
         /\ progress.function_name = "add_ints"
         /\ progress.args = <<ObjInt(40), ObjInt(2)>>
    /\ (prog = ProgNamed("add_ints(40, 2) + 0") /\ hist.answers = <<Return(ObjInt(42))>>) =>
         progress = [kind |-> "Complete", value |-> ObjInt(42)]

C1_Witness ==
    /\ prog = ProgNamed("add_ints(40, 2) + 0")
    /\ hist.answers = <<Return(ObjInt(42))>>
    /\ progress.kind = "Complete"
    /\ progress.value = ObjInt(42)

\* C6: within one run every FunctionCall / OsCall suspension carries a call id that no
\* earlier suspension of the run carried.
C6_CallIdsUnique == NoDuplicates(hist.issued)

C6_Witness == Len(hist.issued) >= 2 /\ IsCall(progress) /\ progress.call_id = Last(hist.issued)

\* C7: at every ResolveFutures suspension pending_call_ids is exactly the set of call ids
\* deferred with the Future marker and not yet resolved with Return or Error.
C7_PendingIsDeferredUnresolved ==
    progress.kind = "ResolveFutures" =>
        /\ Range(progress.state.pending_call_ids) = hist.deferred \ hist.resolved
        /\ NoDuplicates(progress.state.pending_call_ids)

C7_Witness ==
    /\ progress.kind = "ResolveFutures"
    /\ hist.resolved # {}
    /\ hist.deferred \ hist.resolved # {}
    /\ \E i \in DOMAIN hist.answers : hist.answers[i].r = "Return"

\* values of the suspended state that are external futures
FutureIdsIn(vals) == {vals[i].v : i \in {j \in DOMAIN vals : vals[j].t = "ExternalFuture"}}
CallsOfState(st) == st.vm_state.calls
IsPendingIn(calls, id) == \E i \in DOMAIN calls : calls[i].id = id /\ calls[i].st = "pending"

\* C3: resuming a Snapshot with the Future marker registers the snapshot's call id as a
\* pending call and pushes ExternalFuture(call_id) for exactly that id as the call's
\* result; awaiting it while unresolved yields ResolveFutures.
C3_FutureMarkerDefers ==
    /\ (hist.last.op = "run_pending" /\ Suspended(progress)) =>
          /\ IsPendingIn(CallsOfState(progress.state), hist.last.call_id)
          /\ (Code[hist.last.ip].op = "StoreGlobal" =>
                progress.state.namespaces[Code[hist.last.ip].a + 1] = ExternalFuture(hist.last.call_id))
    /\ (hist.last.op = "run_pending" /\ Code[hist.last.ip].op = "Await") =>
          /\ progress.kind = "ResolveFutures"
          /\ hist.last.call_id \in Range(progress.state.pending_call_ids)
          /\ progress.state.vm_state.blocked = [kind |-> "await", ids |-> <<hist.last.call_id>>]
    /\ Suspended(progress) =>
          FutureIdsIn(progress.state.namespaces) \cup FutureIdsIn(progress.state.vm_state.stack)
             \subseteq hist.deferred
    /\ progress.kind = "ResolveFutures" =>
          \E id \in Range(progress.state.vm_state.blocked.ids) :
             id \in hist.deferred /\ IsPendingIn(CallsOfState(progress.state), id)

C3_Witness ==
    /\ hist.last.op = "run_pending"
    /\ progress.kind = "ResolveFutures"
    /\ hist.last.call_id \in Range(progress.state.pending_call_ids)

\* what the last resume was given
LastIds          == {hist.last.results[i][1] : i \in DOMAIN hist.last.results}
LastAllKnown     == LastIds \subseteq Range(hist.last.pending)
LastResolved     == ResolvedBy(hist.last.results)
LastFailedIds    == {hist.last.results[i][1] : i \in {j \in DOMAIN hist.last.results : hist.last.results[j][2].r = "Error"}}
OkBefore         == {hist.last.calls[i].id : i \in {j \in DOMAIN hist.last.calls : hist.last.calls[j].st = "ok"}}
LastRemaining    == Range(hist.last.pending) \ LastResolved
\* the task the snapshot had blocked becomes runnable by the results
LastUnblocks     == Range(hist.last.blocked) \subseteq (OkBefore \cup (LastResolved \ LastFailedIds))

\* C4: resume accepts results for any subset of the pending ids; when no task becomes
\* runnable and unresolved calls remain it returns ResolveFutures with the remaining
\* ids (gather of two: resolving the second lists the first, then the first completes).
C4_PartialResolution ==
    /\ (hist.last.op = "resume" /\ LastAllKnown /\ LastFailedIds \cap Range(hist.last.blocked) = {}
          /\ ~LastUnblocks /\ LastRemaining # {}) =>
          /\ progress.kind = "ResolveFutures"
          /\ Range(progress.state.pending_call_ids) = LastRemaining
    /\ (prog = ProgNamed("a = fetch(1); b = fetch(2); await gather(a, b)") /\ hist.last.op = "resume" /\ hist.last.pending = <<0, 1>>
          /\ \E v \in HostObjects : hist.last.results = <<<<1, Return(v)>>>>) =>
          progress.kind = "ResolveFutures" /\ progress.state.pending_call_ids = <<0>>
    /\ (prog = ProgNamed("a = fetch(1); b = fetch(2); await gather(a, b)") /\ hist.last.op = "resume" /\ hist.last.pending = <<0>>) =>
          \A v \in HostObjects :
             hist.last.results = <<<<0, Return(v)>>>> =>
                progress = [kind |-> "Complete",
                            value |-> ObjSeq("Tuple", <<v, MontyObject_new(hist.last.calls[2].p, <<>>)>>)]

C4_Witness ==
    /\ prog = ProgNamed("a = fetch(1); b = fetch(2); await gather(a, b)")
    /\ hist.last.op = "resume"
    /\ hist.last.pending = <<0>>
    /\ progress.kind = "Complete"

\* C5: a results list naming a call id that is not pending is refused with a
\* RuntimeError naming that id, after VM cleanup, and none of the supplied results is
\* applied to the scheduler.
C5_UnknownCallId ==
    (hist.last.op \in {"resume", "repl_resume"} /\ ~LastAllKnown) =>
        /\ progress.kind = "Err"
        /\ progress.exc.type = "RuntimeError"
        /\ progress.exc.arg[2] \in LastIds \ Range(hist.last.pending)
        /\ \A i \in DOMAIN hist.last.results :
              hist.last.results[i][1] = progress.exc.arg[2] =>
                 \A j \in 1..(i - 1) : hist.last.results[j][1] \in Range(hist.last.pending)
        /\ progress.cleanup
        /\ progress.calls = hist.last.calls

C5_Witness ==
    /\ hist.last.op = "resume"
    /\ Len(hist.last.results) = 2
    /\ hist.last.results[1][1] \in Range(hist.last.pending)
    /\ hist.last.results[1][2].r = "Return"
    /\ hist.last.results[2][1] \notin Range(hist.last.pending)
    /\ progress.kind = "Err"

\* C2: synchronous run never suspends: an external call, an OS call or a
\* blocked-on-futures exit becomes a NotImplementedError exception, and only a Return
\* exit produces a value.
C2_SyncNeverSuspends ==
    (sync.mode # "off" /\ sync.result # NoResult) =>
        /\ sync.result.kind \in {"Value", "Err"}
        /\ sync.exit.k \in {"ExternalCall", "OsCall", "ResolveFutures"} =>
              sync.result.kind = "Err" /\ sync.result.exc.type = "NotImplementedError"
        /\ sync.result.kind = "Value" <=> sync.exit.k = "Return"
        /\ sync.exit.k = "Return" =>
              sync.result.value = MontyObject_new(sync.exit.value, sync.heap)
        /\ sync.exit.k = "Err" => sync.result = [kind |-> "Err", exc |-> sync.exit.exc]

C2_Witness ==
    /\ sync.mode = "program"
    /\ sync.exit.k = "ExternalCall"
    /\ sync.result.kind = "Err"
    /\ sync.result.exc = Exc("NotImplementedError", "add_ints")

\* C8: snapshot round trip: a run whose suspended states went through dump and load
\* shows, under the same host answers, the same progress at every step (and so the same
\* final value) as the run that was never serialized.
C8_SnapshotRoundTrip == hist.loaded # {} => progress = hist.twin

C8_Witness ==
    /\ {"FunctionCall", "OsCall", "ResolveFutures"} \subseteq hist.loaded
    /\ hist.last.op = "run"
    /\ progress.kind = "Complete"

\* every heap id and external function id of the state exists in its table
WellFormedValue(v, st) ==
    /\ v.t = "Ref" => v.v < Len(st.heap)
    /\ v.t = "ExtFunction" => v.v < Len(st.executor.interns.external_functions)
WellFormedState(st) ==
    /\ \A i \in DOMAIN st.namespaces : WellFormedValue(st.namespaces[i], st)
    /\ \A i \in DOMAIN st.vm_state.stack : WellFormedValue(st.vm_state.stack[i], st)
\* C9: load returns an error for every blob whose snapshot names a heap id that is not in
\* the accompanying heap or an external function id outside its table.
C9_LoadValidates ==
    (progress.kind = "Loaded" /\ progress.result # LoadErr) =>
        WellFormedState(progress.result.state)

\* C10: a snippet fed to feed that raises after assigning globals returns the
\* exception, and the assignments made before the raise, the snippet's names in the name
\* map and in the intern table stay in the session and are what every later feed sees.
C10_PartialMutationPersists ==
    (replOut.mode = "on" /\ repl # NoRepl) =>
        /\ \A nm \in Names :
              replOut.env[nm] # Undefined =>
                 /\ nm \in MapNames(repl.global_name_map)
                 /\ nm \in Range(repl.interns.strings)
                 /\ repl.namespaces[SlotOf(repl.global_name_map, nm) + 1] = replOut.env[nm]
        /\ replOut.expect.ok =>
              replOut.result = [kind |-> "Value", value |-> replOut.expect.v]
        /\ ~replOut.expect.ok =>
              replOut.result.kind = "Err" /\ replOut.result.exc.type = replOut.expect.exc
        /\ (replOut.code = "b" /\ "b" \in replOut.partial /\ hist.last.op = "feed") =>
              replOut.result = [kind |-> "Value", value |-> ObjInt(2)]

C10_Witness ==
    /\ replOut.mode = "on"
    /\ repl # NoRepl
    /\ hist.last.op = "feed"
    /\ replOut.partial = {"a", "b"}
    /\ replOut.code = "c = a + b; c"
    /\ replOut.result = [kind |-> "Value", value |-> ObjInt(3)]

\* the REPL half of C5 is reached: an unknown id given to ReplFutureSnapshot::resume
C5_ReplWitness ==
    /\ hist.last.op = "repl_resume"
    /\ ~LastAllKnown
    /\ progress.kind = "Err"

(***************************************************************************)
(* Properties of the REPL session.                                         *)
(***************************************************************************)
\* the session the host can reach: its own, or the one a suspended snapshot carries
Session ==
    IF repl # NoRepl THEN repl
    ELSE IF InRepl({"FunctionCall", "OsCall", "ResolveFutures"}) THEN progress.p.state.repl
    ELSE NoRepl
ReplStepOps == {"repl_start", "repl_run", "repl_run_pending", "repl_resume"}

\* C11: when a snippet run through MontyRepl::start and its continuations ends with an
\* uncaught exception after it assigned a global, the host still has a session.
C11_StartErrorKeepsSession ==
    (hist.last.op \in ReplStepOps /\ progress.kind = "Err"
        /\ replOut.code = "z = 1; add_ints(z, 2)") => Session # NoRepl

\* the program text made of the initial code and the fed snippets, one per line, and
\* its statements
RECURSIVE JoinLines(_)
JoinLines(codes) ==
    IF Len(codes) = 1 THEN codes[1] ELSE codes[1] \o "\n" \o JoinLines(Tail(codes))
parse_lines(codes) == Concat([i \in DOMAIN codes |-> parse(codes[i])])

\* MontyRun::new on the concatenated program followed by MontyRun::run
ConcatRun(codes) ==
    LET executor == Executor_new_parsed(parse_lines(codes), JoinLines(codes), <<>>, ExtFunctionNames)
        prep     == prepare_namespaces(executor, <<>>)
        vm       == VM_run_module(executor.module_code, VM_new(<<>>, prep.ns))
    IN [name_map |-> executor.name_map, namespaces |-> vm.ns, heap |-> vm.heap,
        result |-> Executor_run(executor, <<>>).result]

\* the global bindings, name to value as the host would see it, in its serialized form
\* (unbound: Undefined)
GlobalNames == Names \cup {"v", "z"}
Globals(name_map, namespaces, heap) ==
    [nm \in GlobalNames |->
        EncObject(IF nm \in MapNames(name_map)
                  THEN MontyObject_new(namespaces[SlotOf(name_map, nm) + 1], heap)
                  ELSE ObjRepr("Undefined"))]
FedProgram == <<Programs[prog]>> \o replOut.log
AfterFeeds ==
    /\ replOut.mode = "on"
    /\ repl # NoRepl
    /\ replOut.pure
    /\ hist.last.op = "feed"
SameGlobals(cr) ==
    Globals(repl.global_name_map, repl.namespaces, repl.heap)
        = Globals(cr.name_map, cr.namespaces, cr.heap)

GrowthOK(s) ==
    \A n \in 0..(Len(s.namespaces) + 2) :
        LET g == ensure_global_namespace_size(s, n).namespaces
        IN /\ Len(g) = IF n > Len(s.namespaces) THEN n ELSE Len(s.namespaces)
           /\ \A i \in 1..Len(g) :
                g[i] = IF i <= Len(s.namespaces) THEN s.namespaces[i] ELSE Undefined

\* C13: across feed / start and their continuations the global slot array never gets
\* shorter; growing it keeps every existing index and fills the new slots with Undefined.
C13_GlobalsOnlyGrow ==
    [][Session # NoRepl =>
          /\ GrowthOK(Session)
          /\ Session' # NoRepl => Len(Session'.namespaces) >= Len(Session.namespaces)]_vars

C13_Witness ==
    /\ Session # NoRepl
    /\ Len(Session.namespaces) > Executor(prog).namespace_size
    /\ \E i \in (Executor(prog).namespace_size + 1)..Len(Session.namespaces) :
          Session.namespaces[i] = Undefined
    /\ hist.last.op \in {"feed"} \cup ReplStepOps

IsPrefix(old, new) ==
    /\ Len(old) <= Len(new)
    /\ \A i \in 1..Len(old) : new[i] = old[i]

EmptySnippetStep ==
    /\ replOut.mode = "on"
    /\ replOut'.mode = "on"
    /\ replOut'.n = replOut.n + 1
    /\ replOut'.code = ""

\* C15: feed and start given empty code return None, compile and execute nothing, and
\* leave the session's name map, interns, heap and namespaces as they were.
C15_EmptySnippetIsNoOp ==
    [][EmptySnippetStep =>
          /\ repl # NoRepl
          /\ repl' = repl
          /\ progress' = ReplIdle
          /\ replOut'.result = [kind |-> "Value", value |-> ObjNone]
          /\ hist'.last.op = "feed" => ~replOut'.compiled]_vars

C15_Witness ==
    /\ hist.last.op = "feed"
    /\ replOut.code = ""
    /\ ~replOut.compiled
    /\ replOut.result = [kind |-> "Value", value |-> ObjNone]
    /\ repl # NoRepl
    /\ Len(repl.global_name_map) > Len(Executor(prog).name_map)
    /\ repl.heap # <<>>

\* the heap allocations one execution of the statements makes: one per list or tuple built
RECURSIVE ExprAllocs(_)
ExprAllocs(es) ==
    IF es = <<>> THEN 0
    ELSE (IF Head(es).e \in {"list", "tuple"} THEN 1 ELSE 0)
         + ExprAllocs(Head(es).args) + ExprAllocs(Tail(es))
StmtAllocs(stmts) == ExprAllocs([i \in DOMAIN stmts |-> stmts[i].v])

\* the values the session binds to the names
Bindings(s) ==
    [nm \in Names |->
        IF nm \in MapNames(s.global_name_map)
        THEN s.namespaces[SlotOf(s.global_name_map, nm) + 1]
        ELSE Undefined]

\* C16: into_repl executes the initial code once, and a feed changes the session by one
\* execution of its own snippet only: nothing executed earlier is run again.
C16_EachSnippetRunsOnce ==
    [][/\ (hist'.last.op = "into_repl" /\ repl' # NoRepl) =>
             Len(repl'.heap) = StmtAllocs(parse(Programs[prog]))
       /\ (repl # NoRepl /\ hist'.last.op = "feed" /\ replOut'.n = replOut.n + 1) =>
             /\ Bindings(repl') = ExecStmts(parse(replOut'.code), Bindings(repl)).env
             /\ IsPrefix(repl.heap, repl'.heap)
             /\ Len(repl'.heap) = Len(repl.heap) + StmtAllocs(parse(replOut'.code))
       /\ (Session # NoRepl /\ Session' # NoRepl /\ hist'.last.op \in ReplStepOps) =>
             Session'.heap = Session.heap]_vars

C16_Witness ==
    /\ repl # NoRepl
    /\ hist.last.op = "feed"
    /\ Programs[prog] = "v = [7]"
    /\ replOut.log = <<"x = 5", "x = x + 1", "x = x + 1">>
    /\ Bindings(repl)["x"] = IntV(7)
    /\ Len(repl.heap) = 1

Prepared == sync.mode = "inputs" /\ sync.stage = "prepared"
Started  == sync.mode = "inputs" /\ sync.stage = "started"

\* C17: when prepare_namespaces succeeds the global array has exactly namespace_size
\* slots: the external functions in order (slot i holds ExtFunction(i)), then the inputs
\* in the order given, then Undefined.
C17_NamespaceLayout ==
    (Prepared /\ sync.prep.ok) =>
        LET ns    == sync.prep.ns
            n_ext == Len(ExtFunctionNames)
            n_in  == Len(sync.inputs)
        IN /\ Len(ns) = InputExecutor.namespace_size
           /\ n_ext + n_in <= Len(ns)
           /\ \A i \in 0..(n_ext - 1) : ns[i + 1] = ExtFunction(i)
           /\ \A k \in 1..n_in : ns[n_ext + k] = to_value(sync.inputs[k])
           /\ \A i \in (n_ext + n_in + 1)..Len(ns) : ns[i] = Undefined

C17_Witness ==
    /\ Prepared
    /\ sync.prep.ok
    /\ sync.code = "x = 5"
    /\ sync.input_names = <<"p", "q">>
    /\ Len(sync.inputs) = 2
    /\ sync.prep.ns = <<ExtFunction(0), ExtFunction(1), IntV(5), NoneV, Undefined>>

\* C18: MontyRun::start returns a MontyException whenever the number of inputs differs
\* from the number of input names, too many or too few, and then nothing is executed.
C18_InputCountChecked ==
    (Started /\ Len(sync.inputs) # Len(sync.input_names)) =>
        /\ progress.kind = "Err"
        /\ ~prepare_namespaces(InputExecutor, sync.inputs).ok

\* the slot id is outside the namespace or holds Undefined
Unbound(namespace, id) == id >= Len(namespace) \/ namespace[id + 1].t = "Undefined"
\* what an operand evaluated to in the namespace the node started with
Operand(expr) == Frame_execute_expr([namespace |-> sync.before], expr, sync.build)
ReadsUnbound ==
    /\ sync.mode = "frame"
    /\ \/ sync.node = "expr" /\ sync.expr.e = "Name" /\ Unbound(sync.before, sync.expr.id)
       \/ /\ sync.node = "op_assign"
          /\ sync.op = "Add"
          /\ Operand(sync.expr).k = "Ok"
          /\ Unbound(sync.before, sync.target)

\* C19: a name expression and an augmented assignment whose slot holds Undefined or lies
\* outside the namespace both end with the name error, never with a value.
C19_UnboundReadIsNameError ==
    ReadsUnbound => sync.result = RunErr("name is not defined")

\* the operand sign-extended by one limb: sums and differences of two i64 are exact in it
Widen(a)       == Append(a, IF IsNegative(a) THEN LimbBase - 1 ELSE 0)
Narrow(w)      == SubSeq(w, 1, Len(w) - 1)
FitsI64(w)     == Widen(Narrow(w)) = w
ExactAdd(a, b) == AddLimbs(Widen(a), Widen(b), 0)
ExactSub(a, b) == AddLimbs(Widen(a), NotLimbs(Widen(b)), 1)
IsOverflowError(result) == result.k = "Err" /\ result.msg = "OverflowError"

\* C20: add, sub and += on two Ints give the exact result when it fits in i64 and raise
\* OverflowError otherwise; the result is never a wrapped value and never a panic.
C20_CheckedIntArithmetic ==
    /\ (sync.mode = "frame" /\ sync.node = "expr" /\ sync.expr.e = "Op"
          /\ sync.expr.op \in {"Add", "Sub"}
          /\ Operand(sync.expr.left).k = "Ok" /\ Operand(sync.expr.left).v.t = "Int"
          /\ Operand(sync.expr.right).k = "Ok" /\ Operand(sync.expr.right).v.t = "Int") =>
            LET a == Operand(sync.expr.left).v.v
                b == Operand(sync.expr.right).v.v
                exact == IF sync.expr.op = "Add" THEN ExactAdd(a, b) ELSE ExactSub(a, b)
            IN IF FitsI64(exact) THEN sync.result = RunOk(Object_Int(Narrow(exact)))
               ELSE IsOverflowError(sync.result)
    /\ (sync.mode = "frame" /\ sync.node = "op_assign" /\ sync.op = "Add"
          /\ ~Unbound(sync.before, sync.target) /\ sync.before[sync.target + 1].t = "Int"
          /\ Operand(sync.expr).k = "Ok" /\ Operand(sync.expr).v.t = "Int") =>
            LET exact == ExactAdd(sync.before[sync.target + 1].v, Operand(sync.expr).v.v)
            IN IF FitsI64(exact)
               THEN /\ sync.result.k = "Ok"
                    /\ sync.frame.namespace[sync.target + 1] = Object_Int(Narrow(exact))
               ELSE IsOverflowError(sync.result)

(***************************************************************************)
(* Object equality and arithmetic.                                         *)
(***************************************************************************)
\* C21: py_eq follows the source language: True and False are equal to Int 1 and Int 0 in
\* either argument order (and to no other Int), and Undefined is equal to no value, itself
\* included.
C21_PyEqFollowsLanguage ==
    (sync.mode = "object" /\ sync.op = "py_eq") =>
        /\ (sync.a = Object_True /\ sync.b.t = "Int") =>
              (sync.eq = (sync.b.v = One) /\ sync.eq_rev = (sync.b.v = One))
        /\ (sync.a = Object_False /\ sync.b.t = "Int") =>
              (sync.eq = (sync.b.v = Zero) /\ sync.eq_rev = (sync.b.v = Zero))
        /\ (sync.a = Object_Undefined \/ sync.b = Object_Undefined) =>
              (~sync.eq /\ ~sync.eq_rev)
C21_Witness ==
    /\ sync.mode = "object" /\ sync.op = "py_eq"
    /\ sync.a = Object_True /\ sync.b = Object_Int(One)
    /\ sync.eq /\ sync.eq_rev

AllInts == sync.a.t = "Int" /\ sync.b.t = "Int" /\ sync.c.t = "Int"
NoSumOverflows ==
    /\ ~add_overflows(sync.a.v, sync.b.v)
    /\ ~add_overflows(wrapping_add(sync.a.v, sync.b.v), sync.c.v)
    /\ ~add_overflows(sync.b.v, sync.c.v)
    /\ ~add_overflows(sync.a.v, wrapping_add(sync.b.v, sync.c.v))
SomeSumOverflows(x, y, z) == add_overflows(x, y) \/ add_overflows(wrapping_add(x, y), z)

\* C22: for Ints a, b, c the expressions (a + b) + c and a + (b + c) either both yield the
\* same Int or both raise the same exception.
C22_AddAssociativeUpToOverflow ==
    (sync.mode = "object" /\ sync.op = "add" /\ AllInts) =>
        /\ sync.left = sync.right
        /\ sync.left.k \in {"Ok", "Err"}

\* what does hold of the two groupings: when no sum of either overflows i64 both yield the
\* exact sum; built without overflow checks both always yield the wrapped sum; built with them
\* a grouping with an overflowing sum panics, whatever the other grouping does
AddAssociativeWithoutOverflow ==
    (sync.mode = "object" /\ sync.op = "add" /\ AllInts) =>
        /\ (NoSumOverflows \/ sync.build = "release") =>
              /\ sync.left = sync.right
              /\ sync.left = RunOk(Object_Int(wrapping_add(wrapping_add(sync.a.v, sync.b.v), sync.c.v)))
        /\ (sync.build = "debug" /\ SomeSumOverflows(sync.a.v, sync.b.v, sync.c.v)) =>
              sync.left.k = "Panic"
        /\ (sync.build = "debug" /\ SomeSumOverflows(sync.b.v, sync.c.v, sync.a.v)) =>
              sync.right.k = "Panic"
\* one grouping yields an Int where the other overflows
OneGroupingOverflows ==
    /\ sync.mode = "object" /\ sync.op = "add" /\ AllInts
    /\ sync.left.k = "Ok" /\ sync.right.k = "Panic"

\* C23: the modulus of an Int by Int 0, in modulus (the % operator) and in modulus_eq, ends in
\* a ZeroDivisionError the program can catch: it neither returns a value nor aborts.
C23_ModulusByZeroRaises ==
    (sync.mode = "object" /\ sync.a.t = "Int" /\ sync.b = Object_Int(Zero)) =>
        /\ sync.op = "modulus" =>
              (sync.mod.k # "panic" /\ sync.left.k = "Err" /\ sync.left.msg = "ZeroDivisionError")
        /\ sync.op = "modulus_eq" => sync.mod_eq.k \notin {"panic", "Some"}


\* C24: assigning a list held by one name to another name aliases it: the two names hold
\* one list until one of them is rebound, so a list extended in place through one name has
\* the same elements, and the same len(), seen through the other (a = [1]; b = a; the list
\* extended through b; len(a) is 2).
C24_AssignAliasesList ==
    sync.mode = "list" =>
        \A p \in sync.aliases : \A i \in p, j \in p :
            /\ sync.frame.namespace[i + 1] = sync.frame.namespace[j + 1]
            /\ Object_len(sync.frame.namespace[i + 1]) = Object_len(sync.frame.namespace[j + 1])
\* a = [1]; b = a; b += [2]; len(a) is 1
SharedListLenIsOne ==
    /\ sync.mode = "list" /\ sync.n = 4 /\ sync.aliases = {Pair(0, 1)} /\ sync.mutated
    /\ sync.node = "expr" /\ sync.target = 0
    /\ sync.frame.namespace[2] = Object_List(<<Object_Int(One), Object_Int(Two)>>)
    /\ sync.result = RunOk(Object_Int(One))

(***************************************************************************)
(* Runs of one executor.                                                   *)
(***************************************************************************)
\* what a run with these inputs returns, and the heap it leaves, on an executor that has
\* not run before
FirstRun(api, code, input_names, inputs) ==
    IF api = "crate"
    THEN LET out == Executor_run(Executor_new(code, input_names, <<>>), inputs)
         IN [inputs |-> inputs, result |-> out.result, heap |-> out.heap]
    ELSE LET out == LegacyExecutor_run(LegacyExecutor_new(code, input_names),
                                       [i \in DOMAIN inputs |-> to_value(inputs[i])])
         IN [inputs |-> inputs, result |-> out.result, heap |-> out.executor.heap]

\* C25: the runs of one compiled program are isolated and deterministic: whatever ran before,
\* a run returns, and leaves on the heap, what the first run of a newly built executor does
\* with the same inputs; so two runs with the same inputs agree.
C25_RunsIsolated ==
    sync.mode = "runs" =>
        /\ \A i \in DOMAIN sync.runs :
              sync.runs[i] = FirstRun(sync.api, sync.code, sync.input_names, sync.runs[i].inputs)
        /\ \A i, j \in DOMAIN sync.runs :
              sync.runs[i].inputs = sync.runs[j].inputs => sync.runs[i] = sync.runs[j]
C25_Witness ==
    /\ sync.mode = "runs" /\ sync.api = "lib" /\ sync.code = "v = [7]"
    /\ Len(sync.runs) = 3
    /\ sync.runs[1].heap # <<>>
    /\ sync.runs[3] = sync.runs[1]

\* C26: an exception of the program that nothing catches is the outcome of the run as a
\* value: Executor::run returns Ok(Exit::Raise(exc)) with the type and arguments of the
\* exception; Ok(exit) of the frame is returned as it is; Err is returned exactly for the
\* interpreter's internal errors.
C26_UncaughtExceptionIsValue ==
    /\ (sync.mode = "frame_result" /\ sync.stage = "done") =>
          /\ sync.frame.k = "Exc" => sync.result = ResOk(ExitRaise(sync.frame.exc))
          /\ sync.frame.k = "Ok" => sync.result = ResOk(sync.frame.exit)
          /\ sync.result.k = "Err" <=> sync.frame.k = "Internal"
          /\ sync.result.k = "Err" => sync.result.internal = sync.frame.internal
    /\ (sync.mode = "runs" /\ sync.api = "lib") =>
          \A i \in DOMAIN sync.runs :
             /\ sync.runs[i].result.k # "Err"
             /\ (sync.code = "a = 1; b = 2; raise ValueError" /\ sync.runs[i].result.k = "Ok") =>
                   (sync.runs[i].result.exit.kind = "Raise"
                    /\ sync.runs[i].result.exit.exc.type = "ValueError")
C26_Witness ==
    /\ sync.mode = "frame_result" /\ sync.stage = "done"
    /\ sync.frame = RunError_Exc(Exc("ValueError", "testing"))
    /\ sync.result = ResOk(ExitRaise(Exc("ValueError", "testing")))
C26_RunWitness ==
    /\ sync.mode = "runs" /\ sync.api = "lib" /\ sync.code = "a = 1; b = 2; raise ValueError"
    /\ Len(sync.runs) > 0
    /\ sync.runs[1].result = ResOk(ExitRaise(Exc("ValueError", "raised")))

(***************************************************************************)
(* The scheduler.                                                          *)
(***************************************************************************)
ReadyInOrder(s) ==
    /\ \A i, j \in DOMAIN s.ready :
          i < j => s.tasks[s.ready[i] + 1].since < s.tasks[s.ready[j] + 1].since
    /\ s.current >= 0 =>
          \A i \in DOMAIN s.ready : s.tasks[s.current + 1].since < s.tasks[s.ready[i] + 1].since
WokenInAwaitOrder(s) ==
    \A t, u \in TaskIds(s) :
        (/\ s.tasks[t + 1].woken_by > 0
         /\ s.tasks[t + 1].woken_by = s.tasks[u + 1].woken_by
         /\ s.tasks[t + 1].blocked_at < s.tasks[u + 1].blocked_at)
        => s.tasks[t + 1].since < s.tasks[u + 1].since
SwitchOnlyAtSuspension ==
    (sync.mode = "tasks" /\ sync.sched.current >= 0 /\ sync'.sched.current # sync.sched.current)
    => sync'.sched.tasks[sync.sched.current + 1].st \in {"blocked", "done", "failed"}

\* C29: the ready queue is FIFO: the tasks run in the order they became runnable, so no task
\* waiting in the queue became runnable before the running one did; one resolution that
\* unblocks several tasks enqueues them in the order they awaited; and the running task
\* changes only where the running task blocks (await, gather) or ends.
C29_ReadyQueueFifo ==
    /\ [](sync.mode = "tasks" => (ReadyInOrder(sync.sched) /\ WokenInAwaitOrder(sync.sched)))
    /\ [][SwitchOnlyAtSuspension]_vars
C29_Witness ==
    /\ sync.mode = "tasks"
    /\ sync.last.op = "resume"
    /\ sync.sched.current = 1
    /\ sync.sched.ready = <<2>>
    /\ sync.sched.tasks[2].woken_by = 1 /\ sync.sched.tasks[3].woken_by = 1
    /\ sync.sched.tasks[2].blocked_at < sync.sched.tasks[3].blocked_at

AllAllocated(s, results) == \A i \in DOMAIN results : results[i][1] < Len(s.calls)

\* C30: a result the host supplies for a call that a cancelled task originated is accepted,
\* not rejected as an unknown call id, and dropped: the call is resolved, and the cancelled
\* task stays cancelled, is not made runnable and does not run.
C30_CancelledResultDropped ==
    (/\ sync.mode = "tasks" /\ sync.last.op = "resume"
     /\ sync.last.dropped # {} /\ AllAllocated(sync.sched, sync.last.results)) =>
        /\ sync.sched.exit # "Err: unknown call_id"
        /\ \A c \in sync.last.dropped :
              LET t == sync.sched.calls[c + 1].creator
              IN /\ sync.sched.calls[c + 1].st # "pending"
                 /\ sync.sched.tasks[t + 1].cancelled
                 /\ sync.sched.tasks[t + 1].st = "blocked"
                 /\ t \notin Range(sync.sched.ready)
                 /\ sync.sched.current # t
C30_Witness ==
    /\ sync.mode = "tasks" /\ sync.last.op = "resume"
    /\ sync.last.dropped = {1}
    /\ sync.sched.calls[2].st = "ok"
    /\ sync.sched.tasks[3].cancelled
    /\ sync.sched.exit = "ResolveFutures" /\ sync.sched.pending_call_ids = <<2>>

\* every live entry is referenced, every reclaimed one is not
LiveEntriesReferenced ==
    \A i \in DOMAIN sync.vm.heap :
        IF sync.vm.heap[i].live THEN sync.vm.heap[i].rc >= 1 ELSE sync.vm.heap[i].rc = 0
\* C27: increments (the reference an allocation starts with, plus every incref) minus
\* decrements equal the sum of the reference counts of the live entries, in every state and
\* when run_ref_counts reads the counts; every live entry has a reference count of at least
\* one; after a run that returned, with the globals and the return value dropped, no entry
\* is live
C27_RefCountsBalance ==
    sync.mode = "heap" =>
        /\ RefCountSum(sync.vm.heap) = sync.vm.allocs + sync.vm.incs - sync.vm.decs
        /\ LiveEntriesReferenced
        /\ sync.exit # "none" => sync.at_end.sum = sync.at_end.increments - sync.at_end.decrements
        /\ sync.exit = "Return" => Heap_entry_count(sync.vm.heap) = 0
\* a run returned one of its lists: the entry was shared at the end, a list holding
\* another list was built, and nothing is live after the drops
C27_Witness ==
    /\ sync.mode = "heap"
    /\ sync.exit = "Return"
    /\ sync.at_end.heap_count >= 2
    /\ sync.at_end.sum > sync.at_end.heap_count
    /\ \E i \in DOMAIN sync.vm.heap : ChildIds(sync.vm.heap[i].items) # <<>>
    /\ Heap_entry_count(sync.vm.heap) = 0
\* C27 as stated: at the end of the run the number of live heap entries equals increments
\* minus decrements
C27_LiveEntriesBalance ==
    (sync.mode = "heap" /\ sync.exit # "none") =>
        /\ sync.at_end.heap_count = sync.at_end.increments - sync.at_end.decrements
        /\ LiveEntriesReferenced
        /\ sync.exit = "Return" => Heap_entry_count(sync.vm.heap) = 0

WithinBudgets ==
    LET tracker == sync.vm.tracker
    IN tracker.limited =>
          /\ tracker.memory <= tracker.max_memory
          /\ tracker.operations <= tracker.max_operations
          /\ sync.vm.depth <= tracker.max_depth
\* C28: once the LimitedTracker is exhausted, every charged operation (allocation, opcode
\* batch, frame push) raises ResourceError, also after the program caught the first one;
\* no budget is ever exceeded
C28_ExhaustionSticky ==
    sync.mode = "heap" =>
        /\ (sync.last.charged /\ sync.last.exhausted) => sync.last.raised = "ResourceError"
        /\ sync.vm.tracker.exhausted => sync.vm.tracker.limited
        /\ WithinBudgets
\* the program caught a ResourceError, went on, and the allocation of a list that would
\* fit the remaining heap budget raised again
C28_Witness ==
    /\ sync.mode = "heap"
    /\ sync.exit = "none"
    /\ sync.last.op = "alloc"
    /\ sync.last.exhausted
    /\ sync.last.raised = "ResourceError"
    /\ sync.vm.tracker.memory + EntryBytes(<<>>) <= sync.vm.tracker.max_memory

AugTarget == sync.frame.namespace[1]
AugValue  == IF sync.operand = "target" THEN sync.frame.namespace[1] ELSE sync.frame.namespace[2]
BothExecuted == sync.mode = "aug" /\ sync.op_assign # NotExecuted /\ sync.assign # NotExecuted
\* C31: when v + x is defined (Int, Str, List) the node v += x and the node v = v + x both
\* succeed and leave the same namespace, the target holding v + x; they end the same way
\* (value, error or panic) for every target and operand; and when the types do not support +
\* the node v += x reports an error and leaves the namespace as it was
C31_AugmentedAgreesWithPlain ==
    BothExecuted =>
        LET sum == Object_add(AugTarget, AugValue, sync.build)
            bound == AugTarget.t # "Undefined" /\ AugValue.t # "Undefined"
        IN /\ sync.op_assign.result.k = sync.assign.result.k
           /\ sync.op_assign.frame = sync.assign.frame
           /\ (bound /\ sum.k = "Some") =>
                 /\ sync.op_assign.result.k = "Ok"
                 /\ sync.op_assign.frame.namespace[1] = sum.v
           /\ sum.k = "None" =>
                 /\ sync.op_assign.result.k = "Err"
                 /\ sync.op_assign.frame = sync.frame
\* both nodes appended a Str to a Str held by the target
C31_Witness ==
    /\ BothExecuted
    /\ AugTarget = Object_Str(<<"x">>)
    /\ sync.operand = "name"
    /\ sync.op_assign.result.k = "Ok"
    /\ sync.op_assign.frame.namespace[1] = Object_Str(<<"x", "a", "b">>)
    /\ sync.assign.frame.namespace[1] = Object_Str(<<"x", "a", "b">>)

\* max(n, 0) for the sizes range() is called with
RangeCount(size) == IF IsNegative(size) THEN 0 ELSE size[1]
\* the appends a finished loop has made: one per pass, or one per multiple of 13 below n
Appends == IF sync.body \in {"op_assign", "assign"} THEN (RangeCount(sync.size) + 12) \div 13
           ELSE RangeCount(sync.size)
\* C32: a loop over range(n) binds the target to 0, 1, ... in increasing order, one pass of
\* the body per element; it ends after max(n, 0) passes (the target untouched when there
\* was none), or at the first pass whose body fails, the target and the earlier appends being
\* what they were at that point; counting the multiples of 13 below 1000 makes 77 appends
C32_ForLoopOverRange ==
    sync.mode = "loop" =>
        /\ sync.object = SmallInt(sync.executed)
        /\ (sync.executed > 0 /\ sync.body # "rebinds_target") =>
              sync.frame.namespace[2] = Object_Int(SmallInt(sync.executed - 1))
        /\ sync.stage = "loop" => sync.executed <= RangeCount(sync.size)
        /\ sync.stage = "done" =>
              /\ sync.executed = RangeCount(sync.size)
              /\ sync.result = RunOk(Object_Int(SmallInt(Appends)))
              /\ sync.executed = 0 => sync.frame.namespace[2] = Object_Undefined
              /\ sync.body = "fails_at_2" => RangeCount(sync.size) <= 2
        /\ sync.stage = "error" =>
              /\ sync.body = "fails_at_2" /\ sync.executed = 3
              /\ sync.result.k = "Err"
              /\ sync.frame.namespace = <<Object_Str(<<"x", "x">>), Object_Int(SmallInt(2))>>
        /\ (sync.body = "op_assign" /\ sync.size = SmallInt(1000) /\ sync.stage = "done") =>
              sync.result = RunOk(Object_Int(SmallInt(77)))
\* the loop of the test ran its 1000 passes and len(v) is 77
C32_Witness ==
    /\ sync.mode = "loop" /\ sync.body = "op_assign" /\ sync.size = SmallInt(1000)
    /\ sync.stage = "done" /\ sync.executed = 1000
    /\ sync.result = RunOk(Object_Int(SmallInt(77)))
\* a loop stopped at the pass whose body failed
LoopStoppedAtError ==
    /\ sync.mode = "loop" /\ sync.stage = "error" /\ sync.size = SmallInt(1000)
    /\ sync.executed = 3


(***************************************************************************)
(* Call ids of suspensions and of the snapshots they carry.                *)
(***************************************************************************)
\* the call-shaped progress the host holds, of a run or of a session
HeldCall ==
    IF IsCall(progress) THEN progress
    ELSE IF InRepl({"FunctionCall", "OsCall"}) THEN progress.p
    ELSE [kind |-> "None"]

\* C33: in every FunctionCall / OsCall progress, of a run or of a session, the reported
\* call_id equals the pending_call_id stored in the snapshot, so run_pending registers
\* the pending call for the id the host was shown.
C33_CallIdMatchesSnapshot ==
    /\ IsCall(HeldCall) => HeldCall.call_id = HeldCall.state.pending_call_id
    /\ (hist.last.op = "run_pending" /\ Suspended(progress)) =>
          \E i \in DOMAIN progress.state.vm_state.calls :
             progress.state.vm_state.calls[i].id = hist.last.call_id

C33_Witness ==
    /\ hist.last.op = "run_pending"
    /\ IsCall(progress)
    /\ hist.last.call_id # progress.call_id
    /\ progress.call_id = progress.state.pending_call_id

C33_ReplWitness ==
    /\ InRepl({"FunctionCall", "OsCall"})
    /\ progress.p.call_id = progress.p.state.pending_call_id
    /\ progress.p.state.vm_state.calls # <<>>


(***************************************************************************)
(* Resuming without resolving anything.                                    *)
(***************************************************************************)
\* a results list that is empty or holds only Future markers for pending ids
OnlyMarkers(results, pending_call_ids) ==
    \A i \in DOMAIN results :
       results[i][2].r = "Future" /\ results[i][1] \in Range(pending_call_ids)

\* a resume, of a run or of a session, that was given nothing but markers
MarkerResume ==
    /\ hist'.last.op \in {"resume", "repl_resume"}
    /\ OnlyMarkers(hist'.last.results, hist'.last.pending)

\* C34: FutureSnapshot::resume with an empty results list, or with only Future markers for
\* pending ids, returns ResolveFutures with the same pending call ids and the same VM, heap
\* and namespace state, so repeating it is a no-op.
C34_MarkerResumeIsNoOp ==
    [][MarkerResume => (progress' = progress /\ repl' = repl /\ replOut' = replOut)]_vars

C34_Witness ==
    /\ hist.last.op = "resume"
    /\ hist.last.results # <<>>
    /\ OnlyMarkers(hist.last.results, hist.last.pending)
    /\ progress.kind = "ResolveFutures"
    /\ progress.state.pending_call_ids = hist.last.pending
    /\ Len(hist.last.pending) >= 2

C34_EmptyWitness ==
    /\ hist.last.op = "resume"
    /\ hist.last.results = <<>>
    /\ progress.kind = "ResolveFutures"
    /\ hist.resolved # {}


(***************************************************************************)
(* Resolving a deferred call more than once.                               *)
(***************************************************************************)
\* calls of the snapshot the last resume was given that were no longer pending
SettledBefore ==
    {hist.last.calls[i].id : i \in {j \in DOMAIN hist.last.calls : hist.last.calls[j].st # "pending"}}

\* a call resolved with Return or Error is in no later pending set, and naming it again
\* in a later resume is refused as unknown
ResolvedLeavesPending ==
    /\ progress.kind = "ResolveFutures" =>
          Range(progress.state.pending_call_ids) \cap hist.resolved = {}
    /\ (hist.last.op = "resume" /\ LastIds \cap SettledBefore # {}) =>
          progress.kind = "Err" /\ progress.exc.type = "RuntimeError"

ResolvedLeavesPending_Witness ==
    /\ hist.last.op = "resume"
    /\ LastIds \cap SettledBefore # {}
    /\ LastIds \cap Range(hist.last.pending) # {}

\* C35: each deferred call is resolved at most once over a run: a resolved call is absent
\* from every later pending set, and one results list hands the scheduler at most one
\* result for a call id.
C35_ResolvedAtMostOnce ==
    /\ ResolvedLeavesPending
    /\ sync.mode = "resume_any" => NoDuplicates(sync.applied)


(***************************************************************************)
(* Error returns of resume and VM cleanup.                                 *)
(***************************************************************************)
\* the last resume was given a value the VM refuses as a return type
LastInvalidReturn == LastAllKnown /\ invalid_return(hist.last.results) # 0
\* the last resume failed a call the blocked task waits for
LastFailsTask ==
    LastAllKnown /\ ~LastInvalidReturn /\ LastFailedIds \cap Range(hist.last.blocked) # {}

\* the error returns for an unknown call id and for a failed task run VM cleanup
OtherErrorsRunCleanup ==
    (hist.last.op \in {"resume", "repl_resume"} /\ (~LastAllKnown \/ LastFailsTask)) =>
        progress.kind = "Err" /\ progress.cleanup

FailedTaskCleanup_Witness ==
    hist.last.op = "resume" /\ LastFailsTask /\ progress.kind = "Err" /\ progress.cleanup

\* C36: every error return of FutureSnapshot::resume and ReplFutureSnapshot::resume (unknown
\* call id, invalid return type of a supplied value, failed-task error, failure while
\* loading a ready task) runs VM cleanup before the error is returned.
C36_ResumeErrorsRunCleanup ==
    (hist.last.op \in {"resume", "repl_resume"}
        /\ (~LastAllKnown \/ LastInvalidReturn \/ LastFailsTask)) =>
        progress.kind = "Err" /\ progress.cleanup


(***************************************************************************)
(* A feed that fails before execution.                                     *)
(***************************************************************************)
\* C37: when MontyRepl::feed fails before execution (parse, prepare or compile error of the
\* snippet) the session is unchanged: name map, interns, heap and global array (its length
\* included) are as before the call, and later feeds behave as if the failed snippet had
\* never been fed.
C37_FailedFeedLeavesSession ==
    [][/\ hist'.last.op = "feed_invalid" =>
             /\ repl' = repl
             /\ replOut'.result.kind = "Err" /\ replOut'.result.exc.type = "SyntaxError"
             /\ ~replOut'.compiled
             /\ replOut'.env = replOut.env
       /\ (repl # NoRepl /\ hist'.last.op = "feed" /\ replOut'.n = replOut.n + 1) =>
             /\ Bindings(repl') = ExecStmts(parse(replOut'.code), Bindings(repl)).env
             /\ replOut'.expect.ok => replOut'.result = [kind |-> "Value", value |-> replOut'.expect.v]
             /\ ~replOut'.expect.ok =>
                   replOut'.result.kind = "Err" /\ replOut'.result.exc.type = replOut'.expect.exc]_vars

C37_Witness ==
    /\ hist.last.op = "feed_invalid"
    /\ repl # NoRepl
    /\ replOut.n >= 2
    /\ Len(repl.global_name_map) > Len(Executor(prog).name_map)
    /\ replOut.result.kind = "Err"

C37_LaterFeedWitness ==
    /\ hist.last.op = "feed"
    /\ sync.mode = "feed" /\ sync.failed = 1
    /\ replOut.n = 3
    /\ replOut.code = "x = x + 1"
    /\ Bindings(repl)["x"] = IntV(6)


(***************************************************************************)
(* The name map and the global array of a session.                         *)
(***************************************************************************)
\* every slot id of the name map is an index of the global array
SlotsInRange(s) ==
    \A i \in DOMAIN s.global_name_map :
       s.global_name_map[i].slot >= 0 /\ s.global_name_map[i].slot < Len(s.namespaces)

\* C38: after every completed feed (successful or raising) and every ReplProgress::Complete,
\* each slot id in the session's global_name_map is a valid index into the global array.
C38_NameMapWithinGlobals == repl # NoRepl => SlotsInRange(repl)

C38_Witness ==
    /\ repl # NoRepl
    /\ hist.last.op = "feed"
    /\ replOut.result.kind = "Err"
    /\ Len(repl.global_name_map) > Len(Executor(prog).name_map)
    /\ Len(repl.namespaces) = Len(repl.global_name_map)

C38_CompleteWitness ==
    /\ repl # NoRepl
    /\ hist.last.op \in {"repl_start", "repl_run"}
    /\ Len(repl.global_name_map) > Len(Executor(prog).name_map)


(***************************************************************************)
(* The fused comparison a % b == r.                                        *)
(***************************************************************************)
Unfused == sync.mode = "object" /\ sync.op = "modulus_then_py_eq"

\* C39: modulus_eq(a, b, r) agrees with modulus followed by py_eq: for Int a, b (b # 0) and
\* r it is Some(t) exactly when modulus(a, b) is Some(m) and t is m.py_eq(Int(r)); for
\* operand types where modulus returns None it returns None.
C39_ModulusEqAgreesWithUnfused ==
    Unfused =>
        /\ (sync.mod_eq.k = "Some") = (sync.mod.k = "Some")
        /\ (sync.mod_eq.k = "None") = (sync.mod.k = "None")
        /\ sync.mod_eq.k = "Some" => sync.mod_eq.b = sync.eq
        /\ (sync.a.t = "Int" /\ sync.b.t = "Int" /\ sync.b.v # Zero
               /\ ~(sync.a.v = MinI64 /\ sync.b.v = MinusOne)) =>
              /\ sync.mod.k = "Some"
              /\ sync.mod_eq = [k |-> "Some", b |-> (sync.mod.v = Object_Int(sync.right_value))]
        /\ (sync.a.t # "Int" \/ sync.b.t # "Int") => sync.mod_eq.k = "None"

C39_Witness ==
    /\ Unfused
    /\ sync.a = Object_Int(MinusOne) /\ sync.b = Object_Int(MaxI64)
    /\ sync.right_value = MinusOne
    /\ sync.mod = [k |-> "Some", v |-> Object_Int(MinusOne)]
    /\ sync.mod_eq = [k |-> "Some", b |-> TRUE]

C39_NoneWitness ==
    /\ Unfused
    /\ sync.a = Object_True /\ sync.b = Object_Int(One)
    /\ sync.mod.k = "None" /\ sync.mod_eq.k = "None"

====
